---- MODULE Spec2Model ----
(***************************************************************************)
(* Audio-modem protocol engine of the CapStone repository: the framing     *)
(* codec (flag, byte stuffing, CRC-16/XMODEM) of emilianoreciver.py, the   *)
(* packet dispatcher and receive loop of emilianoreciver.py, the           *)
(* length-prefixed receive loop of afsk_receiver.py and the start/stop-bit *)
(* receiver of emilianoreciverviamic.py.                                   *)
(***************************************************************************)
EXTENDS Integers, Sequences, FiniteSets, Bags, TLC

VARIABLES
    pc,             \* position of the codec pipeline under check
    packet_id,      \* encoder input: header byte 0
    packet_type,    \* encoder input: header byte 1
    data,           \* encoder input: payload bytes
    prefix,         \* bytes received ahead of the encoded frame
    cut,            \* number of bytes the channel drops from the end of the stream
    raw_bytes,      \* byte stream handed to Packet.decode
    stuffed_frame,  \* stuffed form of a byte sequence
    unstuffed,      \* un-stuffed region
    packet,         \* result of Packet.decode / of the validation
    crc_values,     \* results of crc16_xmodem in the two receivers, <<>> before the call
    program,        \* the receiver script that runs
    running,        \* AFSKReceiver.running
    thread,         \* the processing thread: "none", "alive", "crashed", "exited"
    buffer,         \* AFSKReceiver.buffer, the deque of samples
    noise_floor,    \* the noise floor, a rational [num, den] in units of 0.001
    last_bits,      \* last_bits of _process_audio
    last_packet_time,   \* AFSKReceiver.last_packet_time
    recent_packet_data, \* AFSKReceiver.recent_packet_data
    now,            \* time.time(), in seconds
    blocks,         \* number of audio blocks captured so far
    tx_seq,         \* number of distinct frames the sender has sent
    pending,        \* audio was captured since the last processing cycle
    cb_packet,      \* packet of the latest callback invocation
    cb_region,      \* received region the latest callback's packet came from
    inserted,       \* hash added to recent_packet_data by the latest dispatch
    evicted,        \* hash removed from recent_packet_data by the latest dispatch
    insert_order,   \* the hashes of recent_packet_data, oldest first
    oldest,         \* the oldest hash of recent_packet_data before the latest dispatch
    run_hash,       \* hash of the packet of the current run of dispatches
    run_len,        \* number of consecutive dispatches of that packet
    run_calls,      \* callback invocations during the run
    run_fresh,      \* the packet was not in recent_packet_data when the run began
    found_signal,       \* found_signal of afsk_receiver's _process_audio
    signal_start_time,  \* signal_start_time of afsk_receiver's _process_audio
    floor_before,   \* the noise floor before the latest automatic adjustment
    audio_queue,    \* audio_queue of emilianoreciverviamic: chunks, then the exit marker
    level_queue,    \* number of levels waiting in level_queue
    bit_buffer,     \* AFSKReceiver.bit_buffer of emilianoreciverviamic
    char_buffer,    \* AFSKReceiver.char_buffer, as character codes
    packet_buffer,  \* AFSKReceiver.packet_buffer, as character codes
    receiving,      \* AFSKReceiver.receiving
    last_bit,       \* AFSKReceiver.last_bit
    bit_count,      \* AFSKReceiver.bit_count
    last_transition,    \* AFSKReceiver.last_transition
    silent_bits,    \* bits handed to process_bit for bit periods without any energy
    same_bits,      \* length of the run of identical bits that ends with last_bit
    main_pc,        \* position of main of emilianoreciverviamic.py
    heard,          \* some captured sample was not silence
    delivered,      \* hashes of the payloads the callback was invoked with
    outcome,        \* how the latest processing cycle ended
    loop_pc,        \* position of the processing loop inside its cycle
    retain,         \* retain of _process_audio
    to_pop,         \* iterations left of the popleft loop
    preamble_bits,  \* configured number of preamble bits of a sender
    binary_data,    \* the bits of the message handed to a sender
    framed_data,    \* the bits a sender renders, preamble first
    bit_index,      \* number of bits rendered so far
    phase,          \* the running phase of a sender, in 1/SAMPLE_RATE of a cycle
    first_phase,    \* phase of the first sample of the bit rendered last
    last_phase,     \* phase of the last sample of the bit rendered last
    calls,          \* calls of start() and stop() made on the receiver
    stale_threads   \* processing threads of earlier start() calls that have not returned

codec_vars == <<pc, packet_id, packet_type, data, prefix, cut, raw_bytes,
                stuffed_frame, unstuffed, packet, crc_values>>

recv_vars == <<program, running, thread, buffer, noise_floor, last_bits,
               last_packet_time, recent_packet_data, now, blocks, tx_seq, pending>>

ghost_vars == <<cb_packet, cb_region, inserted, evicted, insert_order, oldest,
                run_hash, run_len, run_calls, run_fresh>>

afsk_vars == <<found_signal, signal_start_time, floor_before>>

mic_vars == <<audio_queue, level_queue, bit_buffer, char_buffer, packet_buffer,
              receiving, last_bit, bit_count, last_transition, silent_bits, heard, same_bits, main_pc>>

loop_vars == <<loop_pc, retain, to_pop>>

cycle_vars == <<delivered, outcome, loop_vars>>

sender_vars == <<preamble_bits, binary_data, framed_data, bit_index, phase, first_phase,
                 last_phase>>

life_vars == <<calls, stale_threads>>

vars == <<codec_vars, recv_vars, ghost_vars, afsk_vars, mic_vars, cycle_vars, sender_vars,
          life_vars>>

----------------------------------------------------------------------------
(* Bounds of the model *)

MaxLen == 2          \* longest payload drawn as encoder input
MaxStuffLen == 3     \* longest byte sequence drawn for the stuffing check
MaxPrefix == 3       \* longest run of bytes drawn ahead of a frame

\* Byte values drawn as inputs: plain bytes, both protocol bytes and the byte
\* 0x5E that an escaped flag produces on the wire.
ByteVals == {0, 1, 94, 125, 126}

\* Bytes drawn ahead of a frame: a plain byte, the escape and the flag.
PrefixVals == {0, 125, 126}

RECURSIVE SeqsUpTo(_, _)
SeqsUpTo(S, n) ==
    IF n = 0 THEN {<<>>}
    ELSE LET shorter == SeqsUpTo(S, n - 1)
         IN  shorter \cup {Append(s, b) : s \in {t \in shorter : Len(t) = n - 1}, b \in S}

----------------------------------------------------------------------------
(* Protocol constants, emilianoreciver.py *)

START_FLAG_VALUE == 126
END_FLAG_VALUE == 126
ESCAPE_VALUE == 125
ESCAPE_MASK == 32

----------------------------------------------------------------------------
(* Integer bit operations *)

\* a ^ b on non-negative integers
RECURSIVE Xor(_, _)
Xor(a, b) ==
    IF a = 0 THEN b
    ELSE IF b = 0 THEN a
    ELSE (((a % 2) + (b % 2)) % 2) + 2 * Xor(a \div 2, b \div 2)

\* one pass of the inner loop of crc16_xmodem, n times
RECURSIVE crc16_bits(_, _)
crc16_bits(crc, n) ==
    IF n = 0 THEN crc
    ELSE IF (crc \div 32768) % 2 = 1
         THEN crc16_bits(Xor(crc * 2, 4129) % 65536, n - 1)
         ELSE crc16_bits((crc * 2) % 65536, n - 1)

RECURSIVE crc16_from(_, _, _)
crc16_from(bytes, i, crc) ==
    IF i > Len(bytes) THEN crc
    ELSE crc16_from(bytes, i + 1, crc16_bits(Xor(crc, bytes[i] * 256), 8))

\* A CRC loop that starts at the second byte.
crc16_skip_first(bytes) == crc16_from(bytes, 2, 0)

crc16_xmodem(bytes) == crc16_from(bytes, 1, 0)

\* crc16_xmodem of afsk_receiver.py: inner loop, byte loop and function.
RECURSIVE afsk_crc16_bits(_, _)
afsk_crc16_bits(crc, n) ==
    IF n = 0 THEN crc
    ELSE IF (crc \div 32768) % 2 = 1
         THEN afsk_crc16_bits(Xor(crc * 2, 4129) % 65536, n - 1)
         ELSE afsk_crc16_bits((crc * 2) % 65536, n - 1)

RECURSIVE afsk_crc16_from(_, _, _)
afsk_crc16_from(bytes, i, crc) ==
    IF i > Len(bytes) THEN crc
    ELSE afsk_crc16_from(bytes, i + 1, afsk_crc16_bits(Xor(crc, bytes[i] * 256), 8))

afsk_crc16_xmodem(bytes) == afsk_crc16_from(bytes, 1, 0)

\* CRC-16/XMODEM by its definition: the remainder of the message polynomial
\* times x^16 divided by x^16 + x^12 + x^5 + 1 over GF(2), the first bit of
\* the message being the most significant bit of its first byte; register
\* starts at 0, nothing is reflected, nothing is XORed onto the result.
msb_first(byte) == [k \in 1..8 |-> (byte \div (2 ^ (8 - k))) % 2]

RECURSIVE message_bits(_)
message_bits(bytes) ==
    IF bytes = <<>> THEN <<>>
    ELSE msb_first(Head(bytes)) \o message_bits(Tail(bytes))

RECURSIVE poly_remainder(_, _, _)
poly_remainder(bits, i, rem) ==
    IF i > Len(bits) THEN rem
    ELSE LET shifted == 2 * rem + bits[i]
         IN  poly_remainder(bits, i + 1,
                            IF shifted >= 65536 THEN Xor(shifted, 69665) ELSE shifted)

xmodem_reference(bytes) ==
    poly_remainder(message_bits(bytes) \o [k \in 1..16 |-> 0], 1, 0)

\* int.from_bytes(b, byteorder='big') of a two-byte sequence
from_bytes_big(b) == b[1] * 256 + b[2]

----------------------------------------------------------------------------
(* Packet and Packet.decode, emilianoreciver.py *)

None == [kind |-> "None"]
Raised == [kind |-> "Raised"]

\* Packet.__init__
Packet(d, id, type) ==
    [kind |-> "Packet", data |-> d, packet_id |-> id % 256, packet_type |-> type % 256]

\* A search that ignores start: index of the first flag of the whole sequence.
find_anywhere(bytes, flag, start) ==
    IF \E i \in 1..Len(bytes) : bytes[i] = flag
    THEN (CHOOSE i \in 1..Len(bytes) :
              bytes[i] = flag /\ \A j \in 1..(i - 1) : bytes[j] # flag) - 1
    ELSE -1

\* bytes.find(flag, start): 0-based index of the first flag at or after
\* start, -1 when there is none
RECURSIVE find(_, _, _)
find(bytes, flag, start) ==
    IF start >= Len(bytes) THEN -1
    ELSE IF bytes[start + 1] = flag THEN start
    ELSE find(bytes, flag, start + 1)

\* The un-stuffing loop; i is the 0-based index into stuffed_frame.
RECURSIVE unstuff_from(_, _, _)
unstuff_from(sf, i, out) ==
    IF i >= Len(sf) THEN [kind |-> "Bytes", bytes |-> out]
    ELSE IF sf[i + 1] = ESCAPE_VALUE
         THEN IF i + 1 >= Len(sf)
              THEN None
              ELSE unstuff_from(sf, i + 2, Append(out, Xor(sf[i + 2], ESCAPE_MASK)))
         ELSE unstuff_from(sf, i + 1, Append(out, sf[i + 1]))

\* An un-stuffing loop that appends the escaped byte without the XOR.
RECURSIVE unstuff_nomask_from(_, _, _)
unstuff_nomask_from(sf, i, out) ==
    IF i >= Len(sf) THEN [kind |-> "Bytes", bytes |-> out]
    ELSE IF sf[i + 1] = ESCAPE_VALUE
         THEN IF i + 1 >= Len(sf)
              THEN None
              ELSE unstuff_nomask_from(sf, i + 2, Append(out, sf[i + 2]))
         ELSE unstuff_nomask_from(sf, i + 1, Append(out, sf[i + 1]))

unstuff_nomask(sf) == unstuff_nomask_from(sf, 0, <<>>)

\* An un-stuffing loop without the bound check on the escaped byte: reading
\* stuffed_frame[i + 1] past the end raises IndexError.
RECURSIVE unstuff_unchecked_from(_, _, _)
unstuff_unchecked_from(sf, i, out) ==
    IF i >= Len(sf) THEN [kind |-> "Bytes", bytes |-> out]
    ELSE IF sf[i + 1] = ESCAPE_VALUE
         THEN IF i + 1 >= Len(sf)
              THEN Raised
              ELSE unstuff_unchecked_from(sf, i + 2, Append(out, Xor(sf[i + 2], ESCAPE_MASK)))
         ELSE unstuff_unchecked_from(sf, i + 1, Append(out, sf[i + 1]))

unstuff(sf) == unstuff_from(sf, 0, <<>>)

\* Validation whose length check asks for at least one byte of data.
validate_min5(region) ==
    IF Len(region) < 5 THEN None
    ELSE LET payload == SubSeq(region, 1, Len(region) - 2)
             received_crc == from_bytes_big(SubSeq(region, Len(region) - 1, Len(region)))
             calculated_crc == crc16_from(payload, 1, 0)
         IN  IF calculated_crc # received_crc THEN None
             ELSE Packet(SubSeq(payload, 3, Len(payload)), payload[1], payload[2])

\* Validation that accepts the region whatever its CRC trailer.
validate_nocrc(region) ==
    IF Len(region) < 4 THEN None
    ELSE LET payload == SubSeq(region, 1, Len(region) - 2)
         IN  Packet(SubSeq(payload, 3, Len(payload)), payload[1], payload[2])

\* Length check, CRC check and header extraction of Packet.decode.
validate(region) ==
    IF Len(region) < 4 THEN None
    ELSE LET payload == SubSeq(region, 1, Len(region) - 2)
             received_crc == from_bytes_big(SubSeq(region, Len(region) - 1, Len(region)))
             calculated_crc == crc16_xmodem(payload)
         IN  IF calculated_crc # received_crc THEN None
             ELSE Packet(SubSeq(payload, 3, Len(payload)), payload[1], payload[2])

\* The stuffed bytes between the first flag and the next flag of raw_bytes,
\* None when either flag is missing.
stuffed_of(bytes) ==
    LET start_idx == find(bytes, START_FLAG_VALUE, 0)
    IN  IF start_idx = -1 THEN None
        ELSE LET end_idx == find(bytes, END_FLAG_VALUE, start_idx + 1)
             IN  IF end_idx = -1 THEN None
                 ELSE [kind |-> "Bytes", bytes |-> SubSeq(bytes, start_idx + 2, end_idx)]

\* The body of the try block of Packet.decode.
decode_body(bytes) ==
    LET sf == stuffed_of(bytes)
    IN  IF sf = None THEN None
        ELSE LET u == unstuff(sf.bytes)
             IN  IF u.kind # "Bytes" THEN u ELSE validate(u.bytes)

\* Packet.decode written without the bound check on the escaped byte and
\* without the try/except around the body.
decode_unguarded(bytes) ==
    LET sf == stuffed_of(bytes)
    IN  IF sf = None THEN None
        ELSE LET u == unstuff_unchecked_from(sf.bytes, 0, <<>>)
             IN  IF u.kind # "Bytes" THEN u ELSE validate(u.bytes)

\* Packet.decode: the body, with any exception turned into None.
decode(bytes) ==
    LET r == decode_body(bytes)
    IN  IF r = Raised THEN None ELSE r

----------------------------------------------------------------------------
(* Frame encoder, spec section 4.6 steps 1-3 *)

RECURSIVE stuff(_)
stuff(bytes) ==
    IF bytes = <<>> THEN <<>>
    ELSE LET b == Head(bytes)
         IN  (IF b = START_FLAG_VALUE \/ b = END_FLAG_VALUE \/ b = ESCAPE_VALUE
              THEN <<ESCAPE_VALUE, Xor(b, ESCAPE_MASK)>>
              ELSE <<b>>) \o stuff(Tail(bytes))

\* header ++ payload ++ big-endian CRC
frame_region(id, type, payload) ==
    LET payloadWithHeader == <<id, type>> \o payload
        crc == crc16_xmodem(payloadWithHeader)
    IN  payloadWithHeader \o <<crc \div 256, crc % 256>>

encode(id, type, payload) ==
    <<START_FLAG_VALUE>> \o stuff(frame_region(id, type, payload)) \o <<END_FLAG_VALUE>>

----------------------------------------------------------------------------
(* State of a receiver after construction, AFSKReceiver.__init__ *)

NoHash == -1

GhostInit ==
    /\ cb_packet = None
    /\ cb_region = <<>>
    /\ inserted = NoHash
    /\ evicted = NoHash
    /\ insert_order = <<>>
    /\ oldest = NoHash
    /\ run_hash = NoHash
    /\ run_len = 0
    /\ run_calls = 0
    /\ run_fresh = FALSE
    /\ delivered = {}
    /\ outcome = "none"
    /\ loop_pc = "wait"
    /\ retain = 0
    /\ to_pop = 0

\* No sender script runs.
SenderIdle ==
    /\ preamble_bits = 0
    /\ binary_data = <<>>
    /\ framed_data = <<>>
    /\ bit_index = 0
    /\ phase = 0
    /\ first_phase = 0
    /\ last_phase = 0

\* The locals of afsk_receiver's _process_audio before its loop.
LifeIdle ==
    /\ calls = 0
    /\ stale_threads = 0

AfskIdle ==
    /\ found_signal = FALSE
    /\ signal_start_time = 0
    /\ floor_before = [num |-> 0, den |-> 1]

\* last_bit before any bit was processed (None)
NoBit == 2

\* AFSKReceiver.__init__ of emilianoreciverviamic and the queues of main.
MicIdle ==
    /\ audio_queue = <<>>
    /\ level_queue = 0
    /\ bit_buffer = <<>>
    /\ char_buffer = <<>>
    /\ packet_buffer = <<>>
    /\ receiving = FALSE
    /\ last_bit = NoBit
    /\ bit_count = 0
    /\ last_transition = 0
    /\ silent_bits = 0
    /\ heard = FALSE
    /\ same_bits = 0
    /\ main_pc = "listening"

\* No receiver script runs: the codec is exercised on its own.
ReceiverIdle ==
    /\ program = "none"
    /\ running = FALSE
    /\ thread = "none"
    /\ buffer = <<>>
    /\ noise_floor = [num |-> 0, den |-> 1]
    /\ last_bits = <<>>
    /\ last_packet_time = 0
    /\ recent_packet_data = {}
    /\ now = 0
    /\ blocks = 0
    /\ tx_seq = 0
    /\ pending = FALSE
    /\ GhostInit
    /\ AfskIdle
    /\ MicIdle
    /\ LifeIdle
    /\ SenderIdle

----------------------------------------------------------------------------
(* Codec pipelines *)

CodecIdle ==
    /\ pc = "idle"
    /\ packet_id = 0
    /\ packet_type = 0
    /\ data = <<>>
    /\ prefix = <<>>
    /\ cut = 0
    /\ raw_bytes = <<>>
    /\ stuffed_frame = <<>>
    /\ unstuffed = None
    /\ packet = None
    /\ crc_values = <<>>
    /\ SenderIdle

\* Round trip: encoder inputs drawn from the bounded sets.
InitRoundTrip ==
    /\ pc = "input"
    /\ packet_id \in ByteVals
    /\ packet_type \in ByteVals
    /\ data \in SeqsUpTo(ByteVals, MaxLen)
    /\ prefix = <<>>
    /\ cut = 0
    /\ raw_bytes = <<>>
    /\ stuffed_frame = <<>>
    /\ unstuffed = None
    /\ packet = None
    /\ crc_values = <<>>
    /\ ReceiverIdle

\* What the receiver gets of a frame sent after the bytes of prefix, when the
\* last n bytes are lost.
received(before, frame, n) ==
    LET sent == before \o frame
    IN  SubSeq(sent, 1, IF n >= Len(sent) THEN 0 ELSE Len(sent) - n)

EncodeStep ==
    /\ pc = "input"
    /\ raw_bytes' = received(prefix, encode(packet_id, packet_type, data), cut)
    /\ pc' = "encoded"
    /\ UNCHANGED <<crc_values, packet_id, packet_type, data, prefix, cut, stuffed_frame, unstuffed, packet>>
    /\ UNCHANGED <<recv_vars, sender_vars, life_vars, ghost_vars, afsk_vars, mic_vars, cycle_vars>>

DecodeStep ==
    /\ pc = "encoded"
    /\ packet' = decode(raw_bytes)
    /\ pc' = (IF decode(raw_bytes) = Raised THEN "crashed" ELSE "decoded")
    /\ UNCHANGED <<crc_values, packet_id, packet_type, data, prefix, cut, raw_bytes, stuffed_frame, unstuffed>>
    /\ UNCHANGED <<recv_vars, sender_vars, life_vars, ghost_vars, afsk_vars, mic_vars, cycle_vars>>

\* bit k (0-based, least significant bit of the first byte first) of a byte
\* sequence inverted
flip_bit(bytes, k) ==
    [bytes EXCEPT ![(k \div 8) + 1] = Xor(@, 2 ^ (k % 8))]

\* The channel inverts one bit of the un-stuffed region of the frame, and the
\* region is validated.
CorruptStep(k) ==
    /\ pc = "encoded"
    /\ LET region == unstuff(stuffed_of(raw_bytes).bytes).bytes
       IN  /\ k \in 0..(8 * Len(region) - 1)
           /\ unstuffed' = [kind |-> "Bytes", bytes |-> flip_bit(region, k)]
           /\ packet' = validate(flip_bit(region, k))
    /\ pc' = "validated"
    /\ UNCHANGED <<crc_values, packet_id, packet_type, data, prefix, cut, raw_bytes, stuffed_frame>>
    /\ UNCHANGED <<recv_vars, sender_vars, life_vars, ghost_vars, afsk_vars, mic_vars, cycle_vars>>

MaxRegionBits == 8 * (MaxLen + 4)

NextRoundTrip ==
    \/ EncodeStep
    \/ DecodeStep
    \/ \E k \in 0..(MaxRegionBits - 1) : CorruptStep(k)

SpecRoundTrip == InitRoundTrip /\ [][NextRoundTrip]_vars

\* Stuffing: a byte sequence drawn from the bounded set is stuffed and
\* un-stuffed.
InitStuff ==
    /\ pc = "input"
    /\ packet_id = 0
    /\ packet_type = 0
    /\ data \in SeqsUpTo(ByteVals, MaxStuffLen)
    /\ prefix = <<>>
    /\ cut = 0
    /\ raw_bytes = <<>>
    /\ stuffed_frame = <<>>
    /\ unstuffed = None
    /\ packet = None
    /\ crc_values = <<>>
    /\ ReceiverIdle

StuffStep ==
    /\ pc = "input"
    /\ stuffed_frame' = stuff(data)
    /\ pc' = "stuffed"
    /\ UNCHANGED <<crc_values, packet_id, packet_type, data, prefix, cut, raw_bytes, unstuffed, packet>>
    /\ UNCHANGED <<recv_vars, sender_vars, life_vars, ghost_vars, afsk_vars, mic_vars, cycle_vars>>

UnstuffStep ==
    /\ pc = "stuffed"
    /\ unstuffed' = unstuff(stuffed_frame)
    /\ pc' = "unstuffed"
    /\ UNCHANGED <<crc_values, packet_id, packet_type, data, prefix, cut, raw_bytes, stuffed_frame, packet>>
    /\ UNCHANGED <<recv_vars, sender_vars, life_vars, ghost_vars, afsk_vars, mic_vars, cycle_vars>>

NextStuff == StuffStep \/ UnstuffStep

SpecStuff == InitStuff /\ [][NextStuff]_vars

\* Decoding of arbitrary streams: a run of bytes, then an encoded frame, with
\* the end of the stream cut off.
DecodeIds == {5}
DecodeTypes == {1}
DecodeData == {<<>>, <<126>>, <<72, 73>>}

InitDecode ==
    /\ pc = "input"
    /\ packet_id \in DecodeIds
    /\ packet_type \in DecodeTypes
    /\ data \in DecodeData
    /\ prefix \in SeqsUpTo(PrefixVals, MaxPrefix)
    /\ cut \in 0..(Len(encode(packet_id, packet_type, data)))
    /\ raw_bytes = <<>>
    /\ stuffed_frame = <<>>
    /\ unstuffed = None
    /\ packet = None
    /\ crc_values = <<>>
    /\ ReceiverIdle

NextDecode == EncodeStep \/ DecodeStep

SpecDecode == InitDecode /\ [][NextDecode]_vars

----------------------------------------------------------------------------
(* Claims on the codec *)

\* C1: decoding the frame produced by encode(id, type, payload) returns a
\* packet with exactly the id, the type and the payload that were encoded.
C1_RoundTrip ==
    pc = "decoded" => packet = [kind |-> "Packet", data |-> data,
                                packet_id |-> packet_id, packet_type |-> packet_type]

\* A frame whose payload holds a flag byte and whose CRC trailer needed
\* stuffing has been decoded.
C1_Witness ==
    /\ pc = "decoded"
    /\ packet.kind = "Packet"
    /\ \E i \in 1..Len(data) : data[i] = START_FLAG_VALUE
    /\ crc16_xmodem(<<packet_id, packet_type>> \o data) \div 256 \in {ESCAPE_VALUE, START_FLAG_VALUE}

\* C2: un-stuffing the stuffed form of a byte sequence gives the sequence
\* back, whatever flag and escape bytes it holds.
C2_StuffRoundTrip ==
    pc = "unstuffed" => unstuffed = [kind |-> "Bytes", bytes |-> data]

\* A sequence holding a flag next to an escape has been stuffed and un-stuffed.
C2_Witness ==
    /\ pc = "unstuffed"
    /\ \E i \in 1..(Len(data) - 1) : data[i] = ESCAPE_VALUE /\ data[i + 1] = START_FLAG_VALUE
    /\ Len(stuffed_frame) > Len(data) + 1

\* C3: with any single bit of the un-stuffed region of a correct frame
\* inverted, validation returns no packet.
C3_CrcSensitivity ==
    pc = "validated" => packet = None

\* A bit of the payload of a full-length frame was inverted, header and CRC
\* trailer left as sent.
C3_Witness ==
    /\ pc = "validated"
    /\ Len(data) > 0
    /\ LET sent == frame_region(packet_id, packet_type, data)
           n == Len(sent)
       IN  /\ unstuffed.bytes # sent
           /\ SubSeq(unstuffed.bytes, 1, 2) = SubSeq(sent, 1, 2)
           /\ SubSeq(unstuffed.bytes, n - 1, n) = SubSeq(sent, n - 1, n)

\* C5: a decode attempt on any byte stream ends with a packet or with
\* nothing; it never raises to the caller.
C5_DecodeNeverRaises ==
    /\ pc # "crashed"
    /\ pc = "decoded" => packet.kind \in {"Packet", "None"}

\* A stream whose first frame candidate ends in an escape byte was decoded
\* to nothing.
C5_Witness ==
    /\ pc = "decoded"
    /\ packet = None
    /\ stuffed_of(raw_bytes) # None
    /\ LET sf == stuffed_of(raw_bytes).bytes
       IN  Len(sf) > 0 /\ sf[Len(sf)] = ESCAPE_VALUE

\* A frame candidate that is complete (flag to flag) and yields no packet.
malformed_candidate(bytes) ==
    /\ stuffed_of(bytes) # None
    /\ decode(bytes) = None

\* C10: a malformed frame candidate ahead of a valid frame in the same byte
\* stream does not keep the valid frame from being returned.
C10_ValidFrameAfterMalformed ==
    (pc = "decoded" /\ cut = 0 /\ malformed_candidate(prefix))
        => packet = [kind |-> "Packet", data |-> data,
                     packet_id |-> packet_id, packet_type |-> packet_type]

----------------------------------------------------------------------------
(* Samples, tone filter bank and bit slicing, emilianoreciver.py *)

\* A sample is an integer in units of 0.001 of full scale: 0 is silence,
\* x > 0 a sample of the mark tone at level x, x < 0 a sample of the space
\* tone at level -x.
ToneLevel == 500

SamplesPerBit == 1      \* samples_per_bit of the model's sample clock
BufferBits == 160       \* capacity of the deque, in bit periods
TrailBits == 8          \* bit periods of idle mark tone after a frame
SilenceBits == 8        \* bit periods of a block of silence

NOISE_FLOOR == 8        \* 0.008
RECENT_LIMIT == 10

abs(x) == IF x < 0 THEN -x ELSE x

\* The sum of the values of a function whose values are all positive: the
\* function is a bag that holds f[x] copies of every x.
Sum(f) == BagCardinality(f)

\* np.sum(np.abs(samples[lo..hi]))
sum_abs(samples, lo, hi) ==
    Sum([i \in {j \in lo..hi : samples[j] # 0} |-> abs(samples[i])])

RECURSIVE gcd(_, _)
gcd(a, b) == IF b = 0 THEN a ELSE gcd(b, a % b)

\* the fraction num / den in lowest terms
fraction(num, den) ==
    LET g == gcd(num, den)
    IN  [num |-> num \div g, den |-> den \div g]

\* signal_power = np.mean(np.abs(buffer_array))
signal_power(buffer_array) ==
    fraction(sum_abs(buffer_array, 1, Len(buffer_array)), Len(buffer_array))

\* a < b for two fractions
fraction_less(a, b) == a.num * b.den < b.num * a.den

\* signal_power < noise_floor
power_below(buffer_array, floor) == fraction_less(signal_power(buffer_array), floor)

\* Energy of samples[from..to] after the mark band-pass filter: the filter
\* passes the mark tone and rejects the space tone.
mark_energy(samples, from, to) ==
    Sum([i \in {j \in from..to : samples[j] > 0} |-> samples[i] * samples[i]])

\* Energy of samples[from..to] after the space band-pass filter.
space_energy(samples, from, to) ==
    Sum([i \in {j \in from..to : samples[j] < 0} |-> samples[i] * samples[i]])

\* Bit decision of one chunk: 1 when the mark band holds more energy.
slice_bit(samples, from, to) ==
    IF mark_energy(samples, from, to) > space_energy(samples, from, to) THEN 1 ELSE 0

\* The bits of range(0, len(buffer_array) - samples_per_bit, samples_per_bit).
slice_bits(buffer_array, spb) ==
    LET n == IF Len(buffer_array) = 0 THEN 0 ELSE (Len(buffer_array) - 1) \div spb
    IN  [k \in 1..n |-> slice_bit(buffer_array, (k - 1) * spb + 1, k * spb)]

\* The list bits after the padding loop of bits_to_bytes, which appends to
\* the caller's list.
pad_bits(bits) ==
    bits \o [k \in 1..((8 - (Len(bits) % 8)) % 8) |-> 0]

\* bits_to_bytes: bit j of each byte is bit i + j of the padded list.
bits_to_bytes(bits) ==
    LET padded == pad_bits(bits)
    IN  [b \in 1..(Len(padded) \div 8) |->
            padded[8 * b - 7] + 2 * padded[8 * b - 6] + 4 * padded[8 * b - 5]
            + 8 * padded[8 * b - 4] + 16 * padded[8 * b - 3] + 32 * padded[8 * b - 2]
            + 64 * padded[8 * b - 1] + 128 * padded[8 * b]]

\* hash(packet.data): a value that differs for different byte strings.
RECURSIVE packet_hash(_)
packet_hash(bytes) ==
    IF bytes = <<>> THEN 0
    ELSE 257 * packet_hash(SubSeq(bytes, 1, Len(bytes) - 1)) + bytes[Len(bytes)] + 1

\* An extend that refuses the samples that do not fit: the oldest are kept.
deque_keep_oldest(deque, samples, maxlen) ==
    LET all == deque \o samples
    IN  IF Len(all) <= maxlen THEN all ELSE SubSeq(all, 1, maxlen)

\* An extend that first empties the deque: only the block is kept.
deque_restart(deque, samples, maxlen) ==
    IF Len(samples) <= maxlen THEN samples
    ELSE SubSeq(samples, Len(samples) - maxlen + 1, Len(samples))

\* deque(maxlen).extend: the newest maxlen samples are kept.
deque_extend(deque, samples, maxlen) ==
    LET all == deque \o samples
    IN  IF Len(all) <= maxlen THEN all
        ELSE SubSeq(all, Len(all) - maxlen + 1, Len(all))

buffer_maxlen == SamplesPerBit * BufferBits

\* The buffer after the popleft loop that keeps the newest retain samples.
trim_buffer(deque, spb) ==
    LET keep == IF spb * 8 < Len(deque) \div 4 THEN spb * 8 ELSE Len(deque) \div 4
    IN  SubSeq(deque, Len(deque) - keep + 1, Len(deque))

\* A trim that keeps the oldest samples instead of the newest.
trim_keep_oldest(deque, spb) ==
    LET keep == IF spb * 8 < Len(deque) \div 4 THEN spb * 8 ELSE Len(deque) \div 4
    IN  SubSeq(deque, 1, keep)

\* The un-stuffed region of the first frame candidate of a byte stream.
region_of(bytes) ==
    IF stuffed_of(bytes) = None THEN <<>>
    ELSE LET u == unstuff(stuffed_of(bytes).bytes)
         IN  IF u.kind = "Bytes" THEN u.bytes ELSE <<>>

remove_hash(order, h) == SelectSeq(order, LAMBDA x : x # h)

----------------------------------------------------------------------------
(* The audio sent to the receiver *)

\* bit j (0 = least significant) of a byte
bit_of(byte, j) == (byte \div (2 ^ j)) % 2

\* the bits of a byte stream in the order bits_to_bytes reassembles them
bits_of_bytes(bytes) ==
    [k \in 1..(8 * Len(bytes)) |-> bit_of(bytes[((k - 1) \div 8) + 1], (k - 1) % 8)]

\* one bit period of tone per bit: mark for 1, space for 0
tone_samples(bits, spb) ==
    [k \in 1..(spb * Len(bits)) |->
        IF bits[((k - 1) \div spb) + 1] = 1 THEN ToneLevel ELSE -ToneLevel]

idle_samples(n) == [k \in 1..n |-> ToneLevel]
silence_samples(n) == [k \in 1..n |-> 0]

\* a byte stream keyed at the receiver's bit rate, followed by idle mark tone
tx_samples(bytes) ==
    tone_samples(bits_of_bytes(bytes), SamplesPerBit) \o idle_samples(SamplesPerBit * TrailBits)

\* the n-th frame of the sender: id n, type 1, payload the byte n
sender_frame(n) == encode(n % 256, 1, <<n % 256>>)

\* the n-th frame with the low bit of its last CRC byte inverted in transit
corrupted_frame(n) ==
    LET region == frame_region(n % 256, 1, <<n % 256>>)
    IN  <<START_FLAG_VALUE>> \o stuff(flip_bit(region, 8 * (Len(region) - 1)))
        \o <<END_FLAG_VALUE>>

----------------------------------------------------------------------------
(* AFSKReceiver of emilianoreciver.py *)

MaxBlocks == 3          \* audio blocks captured in the free-running scenario
NumFrames == 12         \* distinct frames the sender of the repeat scenario sends
MaxRepeat == 3          \* consecutive dispatches of one packet that are followed
Now0 == 20              \* time.time() when the receiver is constructed
TickSeconds == 11       \* seconds between two readings of the clock
MaxTicks == 1           \* clock steps during a run

\* Construction: AFSKReceiver.__init__, with the locals of _process_audio at
\* their initial values.
InitEmiliano ==
    /\ program = "emiliano"
    /\ running = FALSE
    /\ thread = "none"
    /\ buffer = <<>>
    /\ noise_floor = [num |-> NOISE_FLOOR, den |-> 1]
    /\ last_bits = <<>>
    /\ last_packet_time = 0
    /\ recent_packet_data = {}
    /\ now = Now0
    /\ blocks = 0
    /\ tx_seq = 0
    /\ pending = FALSE
    /\ GhostInit
    /\ AfskIdle
    /\ MicIdle
    /\ LifeIdle
    /\ CodecIdle

\* AFSKReceiver.start: the stream opens and the processing thread starts, or
\* opening fails and running is reset. The call is followed here once a
\* processing thread started earlier has returned.
EmilianoStart ==
    /\ program = "emiliano"
    /\ ~running
    /\ thread # "alive"
    /\ buffer' = <<>>
    /\ \E opened \in BOOLEAN :
          IF opened
          THEN /\ running' = TRUE
               /\ thread' = "alive"
               /\ last_bits' = <<>>
               /\ noise_floor' = [num |-> NOISE_FLOOR, den |-> 1]
          ELSE /\ running' = FALSE
               /\ UNCHANGED <<thread, last_bits, noise_floor>>
    /\ UNCHANGED <<program, last_packet_time, recent_packet_data, now, blocks, tx_seq, pending>>
    /\ UNCHANGED <<codec_vars, sender_vars, life_vars, ghost_vars, afsk_vars, mic_vars, cycle_vars>>

\* AFSKReceiver.stop
Stop ==
    /\ program # "none"
    /\ running
    /\ running' = FALSE
    /\ UNCHANGED <<program, thread, buffer, noise_floor, last_bits, last_packet_time,
                   recent_packet_data, now, blocks, tx_seq, pending>>
    /\ UNCHANGED <<codec_vars, sender_vars, life_vars, ghost_vars, afsk_vars, mic_vars, cycle_vars>>

\* The processing loop finds running cleared and returns.
ThreadExit ==
    /\ thread = "alive"
    /\ ~running
    /\ thread' = "exited"
    /\ UNCHANGED <<program, running, buffer, noise_floor, last_bits, last_packet_time,
                   recent_packet_data, now, blocks, tx_seq, pending>>
    /\ UNCHANGED <<codec_vars, sender_vars, life_vars, ghost_vars, afsk_vars, mic_vars, cycle_vars>>

\* A callback that also stamps the time of the block on the receiver.
AudioCallbackStamping(samples, Maxlen) ==
    /\ running
    /\ buffer' = deque_extend(buffer, samples, Maxlen)
    /\ pending' = TRUE
    /\ last_packet_time' = now
    /\ UNCHANGED <<program, running, thread, noise_floor, last_bits, recent_packet_data, now>>
    /\ UNCHANGED <<codec_vars, sender_vars, life_vars, ghost_vars, afsk_vars, mic_vars, cycle_vars>>

\* AFSKReceiver._audio_callback: the block is appended to the deque.
AudioCallback(samples, Maxlen) ==
    /\ running
    /\ buffer' = deque_extend(buffer, samples, Maxlen)
    /\ pending' = TRUE
    /\ UNCHANGED <<program, running, thread, noise_floor, last_bits, last_packet_time,
                   recent_packet_data, now>>
    /\ UNCHANGED <<codec_vars, sender_vars, life_vars, ghost_vars, afsk_vars, mic_vars, cycle_vars>>

\* time passes
Tick ==
    /\ now < Now0 + MaxTicks * TickSeconds
    /\ now' = now + TickSeconds
    /\ UNCHANGED <<program, running, thread, buffer, noise_floor, last_bits, last_packet_time,
                   recent_packet_data, blocks, tx_seq, pending>>
    /\ UNCHANGED <<codec_vars, sender_vars, life_vars, ghost_vars, afsk_vars, mic_vars, cycle_vars>>

\* A duplicate check that lets every packet through.
is_always_new(pkt, recent) == pkt.kind = "Packet"

\* A duplicate check keyed on the header bytes and the payload.
is_new_packet(pkt, recent) ==
    packet_hash(<<pkt.packet_id, pkt.packet_type>> \o pkt.data) \notin recent

\* packet_hash not in self.recent_packet_data
is_new(pkt, recent) == packet_hash(pkt.data) \notin recent

\* set.pop() removes and returns an arbitrary element of the set.
pop_choices(set) == set

\* Duplicate check, insertion into recent_packet_data and callback, for a
\* packet that Packet.decode returned.
Deliver(pkt, region) ==
    LET h == packet_hash(pkt.data)
        added == recent_packet_data \cup {h}
    IN  /\ run_hash' = h
        /\ run_len' = (IF h = run_hash THEN run_len + 1 ELSE 1)
        /\ run_fresh' = (IF h = run_hash THEN run_fresh ELSE h \notin recent_packet_data)
        /\ run_calls' = (IF h = run_hash THEN run_calls ELSE 0)
                        + (IF is_new(pkt, recent_packet_data) THEN 1 ELSE 0)
        /\ IF is_new(pkt, recent_packet_data)
           THEN /\ cb_packet' = pkt
                /\ cb_region' = region
                /\ delivered' = delivered \cup {h}
                /\ outcome' = "delivered"
                /\ last_packet_time' = now
                /\ inserted' = h
                /\ oldest' = (IF insert_order = <<>> THEN h ELSE Head(insert_order))
                /\ IF Cardinality(added) > RECENT_LIMIT
                   THEN \E victim \in pop_choices(added) :
                            /\ recent_packet_data' = added \ {victim}
                            /\ evicted' = victim
                            /\ insert_order' = remove_hash(Append(insert_order, h), victim)
                   ELSE /\ recent_packet_data' = added
                        /\ evicted' = NoHash
                        /\ insert_order' = Append(insert_order, h)
           ELSE /\ inserted' = NoHash
                /\ evicted' = NoHash
                /\ outcome' = "duplicate"
                /\ UNCHANGED <<cb_packet, cb_region, last_packet_time, recent_packet_data,
                               insert_order, oldest, delivered>>

\* Deliver, then the trim of the buffer.
Dispatch(pkt, region) ==
    /\ Deliver(pkt, region)
    /\ buffer' = trim_buffer(buffer, SamplesPerBit)

\* One pass of the while loop of AFSKReceiver._process_audio.
EmilianoCycle ==
    /\ program = "emiliano"
    /\ thread = "alive"
    /\ running
    /\ UNCHANGED loop_vars
    /\ pending' = FALSE
    /\ UNCHANGED <<program, running, noise_floor, now, blocks, tx_seq>>
    /\ UNCHANGED <<codec_vars, sender_vars, life_vars, afsk_vars, mic_vars>>
    /\ IF Len(buffer) < SamplesPerBit * 8 \/ power_below(buffer, noise_floor)
       THEN /\ outcome' = "quiet"
            /\ UNCHANGED <<thread, buffer, last_bits, last_packet_time, recent_packet_data,
                           ghost_vars, delivered>>
       ELSE LET bits == slice_bits(buffer, SamplesPerBit)
            IN  IF ~(bits # last_bits /\ Len(bits) >= 16)
                THEN /\ last_bits' = bits
                     /\ outcome' = "no new bits"
                     /\ UNCHANGED <<thread, buffer, last_packet_time, recent_packet_data,
                                    ghost_vars, delivered>>
                ELSE LET packet_bytes == bits_to_bytes(bits)
                         result == decode(packet_bytes)
                     IN  IF result = Raised
                         THEN /\ thread' = "crashed"
                              /\ outcome' = "raised"
                              /\ UNCHANGED <<buffer, last_bits, last_packet_time,
                                             recent_packet_data, ghost_vars, delivered>>
                         ELSE /\ thread' = thread
                              /\ last_bits' = pad_bits(bits)
                              /\ IF result = None
                                 THEN /\ outcome' = "no packet"
                                      /\ UNCHANGED <<buffer, last_packet_time,
                                                     recent_packet_data, ghost_vars,
                                                     delivered>>
                                 ELSE Dispatch(result, region_of(packet_bytes))

\* Free-running scenario: any of these blocks may be captured at any time.
FreeBlocks ==
    { silence_samples(SamplesPerBit * SilenceBits),
      tx_samples(sender_frame(1)),
      tx_samples(sender_frame(2)),
      tx_samples(corrupted_frame(1)),
      tx_samples(<<START_FLAG_VALUE, ESCAPE_VALUE>> \o sender_frame(3)) }

Capture ==
    /\ program = "emiliano"
    /\ blocks < MaxBlocks
    /\ blocks' = blocks + 1
    /\ UNCHANGED tx_seq
    /\ \E samples \in FreeBlocks : AudioCallback(samples, buffer_maxlen)

NextEmiliano ==
    \/ EmilianoStart
    \/ Stop
    \/ ThreadExit
    \/ Capture
    \/ Tick
    \/ EmilianoCycle

SpecEmiliano == InitEmiliano /\ [][NextEmiliano]_vars

\* Repeat scenario: the sender sends its frames in order, each one or more
\* times, and waits for the receiver's cycle between transmissions.
SendNext ==
    /\ program = "emiliano"
    /\ ~pending
    /\ tx_seq < NumFrames
    /\ tx_seq' = tx_seq + 1
    /\ UNCHANGED blocks
    /\ AudioCallback(tx_samples(sender_frame(tx_seq + 1)), buffer_maxlen)

SendAgain ==
    /\ program = "emiliano"
    /\ ~pending
    /\ tx_seq >= 1
    /\ run_len < MaxRepeat
    /\ UNCHANGED <<tx_seq, blocks>>
    /\ AudioCallback(tx_samples(sender_frame(tx_seq)), buffer_maxlen)

NextRepeat ==
    \/ EmilianoStart
    \/ SendNext
    \/ SendAgain
    \/ EmilianoCycle

SpecRepeat == InitEmiliano /\ [][NextRepeat]_vars

----------------------------------------------------------------------------
(* afsk_receiver.py *)

AFSK_NOISE_FLOOR == 3       \* 0.003
START_BYTE == 126
SYNC_BYTE == 170
MAX_DATA_LEN == 1000

AfskSamplesPerBit == 25     \* samples_per_bit of the model's sample clock
AfskBufferBits == 150       \* capacity of the deque, in bit periods
AfskMaxBlocks == 2          \* audio blocks captured in a run
CarrierBits == 16           \* bit periods of a block of carrier or of silence

afsk_maxlen == AfskSamplesPerBit * AfskBufferBits

\* bits_to_bytes_msb_first: whole groups of eight bits, first bit most significant
bits_to_bytes_msb_first(bits) ==
    [b \in 1..(Len(bits) \div 8) |->
        128 * bits[8 * b - 7] + 64 * bits[8 * b - 6] + 32 * bits[8 * b - 5]
        + 16 * bits[8 * b - 4] + 8 * bits[8 * b - 3] + 4 * bits[8 * b - 2]
        + 2 * bits[8 * b - 1] + bits[8 * b]]

\* step_size = max(1, samples_per_bit // 8)
step_size(spb) == IF spb \div 8 > 1 THEN spb \div 8 ELSE 1

\* The bit decisions of the windows buffer_array[i:i + samples_per_bit] for
\* i in range(0, len(buffer_array) - samples_per_bit, step_size).
oversampled_bits(buffer_array, spb) ==
    LET span == Len(buffer_array) - spb
        n == IF span <= 0 THEN 0 ELSE ((span - 1) \div step_size(spb)) + 1
    IN  [k \in 1..n |->
            slice_bit(buffer_array, (k - 1) * step_size(spb) + 1,
                      (k - 1) * step_size(spb) + spb)] \o <<>>

\* the indexes at which a run of equal decisions begins
run_starts(bits) ==
    SelectSeq([i \in 1..Len(bits) |-> i], LAMBDA i : i = 1 \/ bits[i] # bits[i - 1])

\* range(max(1, count // 8))
repeat_count(count) == IF count \div 8 > 1 THEN count \div 8 ELSE 1

\* The consolidated bits of the runs lo..hi, joined by halves.
RECURSIVE consolidate_runs(_, _, _, _)
consolidate_runs(bits, starts, lo, hi) ==
    IF lo > hi THEN <<>>
    ELSE IF lo = hi
    THEN LET first == starts[lo]
             next == IF lo = Len(starts) THEN Len(bits) + 1 ELSE starts[lo + 1]
         IN  [j \in 1..repeat_count(next - first) |-> bits[first]]
    ELSE LET mid == (lo + hi) \div 2
         IN  consolidate_runs(bits, starts, lo, mid)
             \o consolidate_runs(bits, starts, mid + 1, hi)

\* consolidated_bits: every run of equal decisions becomes max(1, count // 8) bits
consolidate(bits) ==
    LET starts == run_starts(bits)
    IN  consolidate_runs(bits, starts, 1, Len(starts))

\* bytes_data[from:to] with Python's 0-based bounds
slice(bytes_data, from, to) == SubSeq(bytes_data, from + 1, to)

\* The bytes from the packet id to the CRC of the packet that the tests of
\* the parse loop find complete at sync position i, <<>> when they find none.
complete_region(bytes_data, i) ==
    LET packet_start == i + 9
        len == Len(bytes_data)
    IN  IF ~(slice(bytes_data, i, i + 2) = <<SYNC_BYTE, SYNC_BYTE>>
             /\ bytes_data[i + 8 + 1] = START_BYTE)
        THEN <<>>
        ELSE IF ~(packet_start + 2 <= len /\ packet_start + 4 <= len) THEN <<>>
        ELSE LET data_len == from_bytes_big(slice(bytes_data, packet_start + 2,
                                                  packet_start + 4))
                 expected_end == packet_start + 4 + data_len + 2
             IN  IF ~(0 <= data_len /\ data_len <= MAX_DATA_LEN) THEN <<>>
                 ELSE IF ~(expected_end + 1 <= len
                           /\ bytes_data[expected_end + 1] = START_BYTE)
                 THEN <<>>
                 ELSE slice(bytes_data, packet_start, expected_end)

\* A parse that takes every complete region whatever its CRC.
crc_ignored(region) == TRUE

\* calculated_crc == received_crc for a complete region
crc_matches(region) ==
    crc16_xmodem(SubSeq(region, 1, Len(region) - 2))
        = from_bytes_big(SubSeq(region, Len(region) - 1, Len(region)))

\* the sync positions whose packet is complete and passes the CRC check
accepted_positions(bytes_data) ==
    { i \in 0..(Len(bytes_data) - 10) :
        /\ complete_region(bytes_data, i) # <<>>
        /\ crc_matches(complete_region(bytes_data, i)) }

\* The region of the packet at which the parse loop breaks: the first
\* accepted position; <<>> when the loop ends without a packet.
first_accepted(bytes_data) ==
    LET hits == accepted_positions(bytes_data)
    IN  IF hits = {} THEN <<>>
        ELSE complete_region(bytes_data, CHOOSE i \in hits : \A j \in hits : i <= j)

\* Packet(data, packet_id, packet_type) of a region
packet_of(region) ==
    Packet(SubSeq(region, 5, Len(region) - 2), region[1], region[2])

\* A trim that removes a quarter of the buffer and keeps the rest.
afsk_trim_quarter(deque, spb) ==
    SubSeq(deque, (Len(deque) \div 4) + 1, Len(deque))

\* retain = min(samples_per_bit * 16, len(self.buffer) // 4), newest kept
afsk_trim(deque, spb) ==
    LET keep == IF spb * 16 < Len(deque) \div 4 THEN spb * 16 ELSE Len(deque) \div 4
    IN  SubSeq(deque, Len(deque) - keep + 1, Len(deque))

\* signal_power * 0.8, with signal_power = np.mean(np.abs(buffer_array))
adjusted_noise_floor(buffer_array) ==
    LET power == signal_power(buffer_array)
    IN  fraction(4 * power.num, 5 * power.den)

\* a <= b for two noise floors
floor_leq(a, b) == ~fraction_less(b, a)

\* the bits of a byte stream, most significant bit first
bits_msb_first(bytes) ==
    [k \in 1..(8 * Len(bytes)) |-> bit_of(bytes[((k - 1) \div 8) + 1], 7 - ((k - 1) % 8))]

\* the frame the parse loop looks for: eight sync bytes, start byte, id,
\* type, 16-bit length, data, CRC, end byte
afsk_frame(id, type, payload) ==
    LET body == <<id, type, Len(payload) \div 256, Len(payload) % 256>> \o payload
        crc == crc16_xmodem(body)
    IN  [k \in 1..8 |-> SYNC_BYTE] \o <<START_BYTE>> \o body
        \o <<crc \div 256, crc % 256>> \o <<START_BYTE>>

\* the frame with the low bit of its last CRC byte inverted in transit
afsk_corrupted_frame(id, type, payload) ==
    LET f == afsk_frame(id, type, payload)
    IN  [f EXCEPT ![Len(f) - 1] = Xor(f[Len(f) - 1], 1)]

afsk_tx_samples(bytes) == tone_samples(bits_msb_first(bytes), AfskSamplesPerBit)

AfskBlocks ==
    { silence_samples(AfskSamplesPerBit * CarrierBits),
      idle_samples(AfskSamplesPerBit * CarrierBits),
      afsk_tx_samples(afsk_frame(7, 1, <<72>>)),
      afsk_tx_samples(afsk_corrupted_frame(7, 1, <<72>>)) }

\* Construction: AFSKReceiver.__init__ of afsk_receiver.py.
InitAfsk ==
    /\ program = "afsk"
    /\ running = FALSE
    /\ thread = "none"
    /\ buffer = <<>>
    /\ noise_floor = [num |-> AFSK_NOISE_FLOOR, den |-> 1]
    /\ last_bits = <<>>
    /\ last_packet_time = 0
    /\ recent_packet_data = {}
    /\ now = Now0
    /\ blocks = 0
    /\ tx_seq = 0
    /\ pending = FALSE
    /\ GhostInit
    /\ found_signal = FALSE
    /\ signal_start_time = 0
    /\ floor_before = [num |-> AFSK_NOISE_FLOOR, den |-> 1]
    /\ MicIdle
    /\ LifeIdle
    /\ CodecIdle

\* AFSKReceiver.start of afsk_receiver.py; noise_floor belongs to the object
\* and keeps its value, the locals of _process_audio start afresh.
AfskStart ==
    /\ program = "afsk"
    /\ ~running
    /\ thread # "alive"
    /\ buffer' = <<>>
    /\ \E opened \in BOOLEAN :
          IF opened
          THEN /\ running' = TRUE
               /\ thread' = "alive"
               /\ last_bits' = <<>>
               /\ found_signal' = FALSE
               /\ signal_start_time' = 0
          ELSE /\ running' = FALSE
               /\ UNCHANGED <<thread, last_bits, found_signal, signal_start_time>>
    /\ UNCHANGED <<program, noise_floor, last_packet_time, recent_packet_data, now, blocks,
                   tx_seq, pending, floor_before>>
    /\ UNCHANGED <<codec_vars, sender_vars, life_vars, ghost_vars, mic_vars, cycle_vars>>

AfskCapture ==
    /\ program = "afsk"
    /\ blocks < AfskMaxBlocks
    /\ blocks' = blocks + 1
    /\ UNCHANGED tx_seq
    /\ \E samples \in AfskBlocks : AudioCallback(samples, afsk_maxlen)

\* One pass of the while loop of _process_audio of afsk_receiver.py.
AfskCycle ==
    /\ program = "afsk"
    /\ thread = "alive"
    /\ running
    /\ UNCHANGED loop_vars
    /\ pending' = FALSE
    /\ UNCHANGED <<program, running, thread, recent_packet_data, now, blocks, tx_seq>>
    /\ UNCHANGED <<codec_vars, sender_vars, life_vars, mic_vars>>
    /\ UNCHANGED <<inserted, evicted, insert_order, oldest, run_hash, run_len, run_calls,
                   run_fresh>>
    /\ IF Len(buffer) < AfskSamplesPerBit * 16
       THEN /\ outcome' = "quiet"
            /\ UNCHANGED <<buffer, noise_floor, last_bits, last_packet_time, cb_packet,
                           cb_region, afsk_vars, delivered>>
       ELSE LET acquire == /\ now - last_packet_time > 5
                           /\ ~power_below(buffer, noise_floor)
                           /\ ~found_signal
                found_1 == found_signal \/ acquire
                start_1 == IF acquire THEN now ELSE signal_start_time
                adjust == /\ found_1
                          /\ now - start_1 > 10
                          /\ now - last_packet_time > 10
                found_2 == found_1 /\ ~adjust
                floor_2 == IF adjust THEN adjusted_noise_floor(buffer) ELSE noise_floor
            IN  /\ noise_floor' = floor_2
                /\ floor_before' = (IF adjust THEN noise_floor ELSE floor_before)
                /\ signal_start_time' = start_1
                /\ IF power_below(buffer, floor_2)
                   THEN /\ found_signal' = found_2
                        /\ outcome' = "quiet"
                        /\ UNCHANGED <<buffer, last_bits, last_packet_time, cb_packet,
                                       cb_region, delivered>>
                   ELSE LET bits == consolidate(oversampled_bits(buffer, AfskSamplesPerBit))
                            region == IF Len(bits) >= 32
                                      THEN first_accepted(bits_to_bytes_msb_first(bits))
                                      ELSE <<>>
                        IN  /\ last_bits' = bits
                            /\ IF region = <<>>
                               THEN /\ found_signal' = found_2
                                    /\ outcome' = "no packet"
                                    /\ UNCHANGED <<buffer, last_packet_time, cb_packet,
                                                   cb_region, delivered>>
                               ELSE /\ cb_packet' = packet_of(region)
                                    /\ cb_region' = region
                                    /\ delivered' = delivered \cup
                                                        {packet_hash(packet_of(region).data)}
                                    /\ outcome' = "delivered"
                                    /\ last_packet_time' = now
                                    /\ found_signal' = FALSE
                                    /\ buffer' = afsk_trim(buffer, AfskSamplesPerBit)

NextAfsk ==
    \/ AfskStart
    \/ Stop
    \/ ThreadExit
    \/ AfskCapture
    \/ Tick
    \/ AfskCycle

SpecAfsk == InitAfsk /\ [][NextAfsk]_vars

----------------------------------------------------------------------------
(* emilianoreciverviamic.py *)

QUEUE_MAXSIZE == 10
CHARACTER_BITS == 10
TRANSITION_LIMIT == 20
PACKET_BUFFER_LIMIT == 100
PACKET_BUFFER_KEEP == 50

ChunkBits == 10         \* bit periods of one captured chunk

\* character codes
Star == 42
TEMP == <<84, 69, 77, 80, 58>>
TEST == <<84, 69, 83, 84, 58>>

is_digit_or_dot(c) == (48 <= c /\ c <= 57) \/ c = 46
is_upper(c) == 65 <= c /\ c <= 90
is_hex(c) == (48 <= c /\ c <= 57) \/ (65 <= c /\ c <= 70)

\* pattern in text
contains(text, pattern) ==
    \E s \in 1..(Len(text) - Len(pattern) + 1) :
        SubSeq(text, s, s + Len(pattern) - 1) = pattern

\* the characters the pattern of a tag takes between the tag and '*'
is_body(tag, c) == IF tag = TEMP THEN is_digit_or_dot(c) ELSE is_upper(c)

\* The index of the last character of the match of tag, one or more body
\* characters, '*' and two hexadecimal digits that begins at s; 0 when the
\* pattern does not match there.
match_end(text, s, tag) ==
    IF s + Len(tag) - 1 > Len(text) \/ SubSeq(text, s, s + Len(tag) - 1) # tag THEN 0
    ELSE LET from == s + Len(tag)
             stop == CHOOSE e \in from..(Len(text) + 1) :
                        /\ e = Len(text) + 1 \/ ~is_body(tag, text[e])
                        /\ \A k \in from..(e - 1) : is_body(tag, text[k])
         IN  IF /\ stop > from
                /\ stop + 2 <= Len(text)
                /\ text[stop] = Star
                /\ is_hex(text[stop + 1])
                /\ is_hex(text[stop + 2])
             THEN stop + 2
             ELSE 0

\* match.end() of re.search: of the leftmost match; 0 without a match
search_end(text, tag) ==
    LET found == {s \in 1..Len(text) : match_end(text, s, tag) # 0}
    IN  IF found = {} THEN 0
        ELSE match_end(text, CHOOSE s \in found : \A t \in found : s <= t, tag)

\* packet_buffer after AFSKReceiver.check_packet
check_packet(text) ==
    IF search_end(text, TEMP) # 0
    THEN SubSeq(text, search_end(text, TEMP) + 1, Len(text))
    ELSE IF search_end(text, TEST) # 0
    THEN SubSeq(text, search_end(text, TEST) + 1, Len(text))
    ELSE IF Len(text) > PACKET_BUFFER_LIMIT
    THEN SubSeq(text, Len(text) - PACKET_BUFFER_KEEP + 1, Len(text))
    ELSE text

\* AFSKReceiver.decode_character on the receiver state r
decode_character(r) ==
    IF r.bit_buffer[1] # 0 \/ r.bit_buffer[10] # 1
    THEN [r EXCEPT !.bit_buffer = <<>>]
    ELSE LET ascii_val ==
                 r.bit_buffer[2] + 2 * r.bit_buffer[3] + 4 * r.bit_buffer[4]
                 + 8 * r.bit_buffer[5] + 16 * r.bit_buffer[6] + 32 * r.bit_buffer[7]
                 + 64 * r.bit_buffer[8] + 128 * r.bit_buffer[9]
             chars == Append(r.char_buffer, ascii_val)
         IN  IF ascii_val = Star \/ contains(chars, TEMP) \/ contains(chars, TEST)
             THEN [r EXCEPT !.char_buffer = <<>>,
                            !.packet_buffer = check_packet(r.packet_buffer \o chars)]
             ELSE [r EXCEPT !.char_buffer = chars]

\* A process_bit that appends the start bit to the bit buffer instead of
\* starting the buffer afresh.
process_bit_append_start(r, bit) ==
    LET transition == IF r.last_bit # NoBit /\ r.last_bit # bit
                      THEN 0 ELSE r.last_transition + 1
        synced == IF transition > TRANSITION_LIMIT
                  THEN [r EXCEPT !.receiving = FALSE, !.bit_count = 0,
                                 !.bit_buffer = <<>>, !.last_transition = 0]
                  ELSE [r EXCEPT !.last_transition = transition]
        taken == IF ~synced.receiving
                 THEN IF bit = 0 /\ (synced.last_bit = 1 \/ synced.last_bit = NoBit)
                      THEN [synced EXCEPT !.receiving = TRUE, !.bit_buffer = Append(@, 0),
                                          !.bit_count = 1]
                      ELSE synced
                 ELSE LET more == [synced EXCEPT !.bit_buffer = Append(@, bit),
                                                 !.bit_count = @ + 1]
                      IN  IF more.bit_count = CHARACTER_BITS
                          THEN [decode_character(more) EXCEPT !.receiving = FALSE,
                                                              !.bit_count = 0]
                          ELSE more
    IN  [taken EXCEPT !.last_bit = bit]

\* AFSKReceiver.process_bit on the receiver state r
process_bit(r, bit) ==
    LET transition == IF r.last_bit # NoBit /\ r.last_bit # bit
                      THEN 0 ELSE r.last_transition + 1
        synced == IF transition > TRANSITION_LIMIT
                  THEN [r EXCEPT !.receiving = FALSE, !.bit_count = 0,
                                 !.bit_buffer = <<>>, !.last_transition = 0]
                  ELSE [r EXCEPT !.last_transition = transition]
        taken == IF ~synced.receiving
                 THEN IF bit = 0 /\ (synced.last_bit = 1 \/ synced.last_bit = NoBit)
                      THEN [synced EXCEPT !.receiving = TRUE, !.bit_buffer = <<0>>,
                                          !.bit_count = 1]
                      ELSE synced
                 ELSE LET more == [synced EXCEPT !.bit_buffer = Append(@, bit),
                                                 !.bit_count = @ + 1]
                      IN  IF more.bit_count = CHARACTER_BITS
                          THEN [decode_character(more) EXCEPT !.receiving = FALSE,
                                                              !.bit_count = 0]
                          ELSE more
    IN  [taken EXCEPT !.last_bit = bit]

\* bit = 1 if mark_energy > space_energy else 0
mic_bit(bit_chunk) ==
    IF mark_energy(bit_chunk, 1, Len(bit_chunk)) > space_energy(bit_chunk, 1, Len(bit_chunk))
    THEN 1 ELSE 0

\* the chunk carries neither mark nor space energy
no_energy(bit_chunk) ==
    /\ mark_energy(bit_chunk, 1, Len(bit_chunk)) = 0
    /\ space_energy(bit_chunk, 1, Len(bit_chunk)) = 0

\* The loop of process_audio_data from the k-th whole bit period on.
RECURSIVE process_audio_data(_, _, _)
process_audio_data(audio_data, r, k) ==
    IF k * SamplesPerBit > Len(audio_data) THEN r
    ELSE LET bit_chunk == SubSeq(audio_data, (k - 1) * SamplesPerBit + 1, k * SamplesPerBit)
         IN  process_audio_data(audio_data, process_bit(r, mic_bit(bit_chunk)), k + 1)

\* the bit periods of a chunk without any energy, each of which yields a bit
silent_periods(audio_data) ==
    Cardinality({k \in 1..(Len(audio_data) \div SamplesPerBit) :
        no_energy(SubSeq(audio_data, (k - 1) * SamplesPerBit + 1, k * SamplesPerBit))})

\* the bits that process_audio_data hands to process_bit for a chunk
chunk_bits(audio_data) ==
    [k \in 1..(Len(audio_data) \div SamplesPerBit) |->
        mic_bit(SubSeq(audio_data, (k - 1) * SamplesPerBit + 1, k * SamplesPerBit))]

\* The length of the run of identical bits at the end of a bit stream that
\* goes on with bits, when it ended with a run of n bits equal to last.
RECURSIVE run_after(_, _, _)
run_after(bits, last, n) ==
    IF bits = <<>> THEN n
    ELSE run_after(Tail(bits), Head(bits), IF Head(bits) = last THEN n + 1 ELSE 1)

\* the fields of the AFSKReceiver object
receiver_state ==
    [bit_buffer |-> bit_buffer, char_buffer |-> char_buffer,
     packet_buffer |-> packet_buffer, receiving |-> receiving, last_bit |-> last_bit,
     bit_count |-> bit_count, last_transition |-> last_transition]

Chunk(samples) == [kind |-> "Chunk", samples |-> samples]

\* a character on the line: start bit 0, eight data bits least significant
\* first, stop bit 1
character_bits(c) == <<0>> \o [j \in 1..8 |-> bit_of(c, j - 1)] \o <<1>>

MicChunks ==
    { silence_samples(SamplesPerBit * ChunkBits),
      idle_samples(SamplesPerBit * ChunkBits),
      tone_samples(character_bits(Star), SamplesPerBit),
      tone_samples(character_bits(84), SamplesPerBit) }

\* main up to the creation of the queues and of the receiver object
InitMic ==
    /\ program = "viamic"
    /\ running = FALSE
    /\ thread = "none"
    /\ buffer = <<>>
    /\ noise_floor = [num |-> 0, den |-> 1]
    /\ last_bits = <<>>
    /\ last_packet_time = 0
    /\ recent_packet_data = {}
    /\ now = Now0
    /\ blocks = 0
    /\ tx_seq = 0
    /\ pending = FALSE
    /\ GhostInit
    /\ AfskIdle
    /\ MicIdle
    /\ LifeIdle
    /\ CodecIdle

\* main: the processing thread starts, then the stream opens; when opening
\* fails the finally block queues the exit marker.
MicStart ==
    /\ program = "viamic"
    /\ thread = "none"
    /\ thread' = "alive"
    /\ \E opened \in BOOLEAN :
          IF opened
          THEN running' = TRUE /\ UNCHANGED audio_queue
          ELSE running' = FALSE /\ audio_queue' = Append(audio_queue, None)
    /\ UNCHANGED <<program, buffer, noise_floor, last_bits, last_packet_time,
                   recent_packet_data, now, blocks, tx_seq, pending>>
    /\ UNCHANGED <<level_queue, bit_buffer, char_buffer, packet_buffer, receiving, last_bit,
                   bit_count, last_transition, silent_bits, heard, same_bits, main_pc>>
    /\ UNCHANGED <<codec_vars, sender_vars, life_vars, ghost_vars, afsk_vars, cycle_vars>>

\* audio_callback: audio_queue.put(audio_data), which waits while the queue is full
MicCallback ==
    /\ program = "viamic"
    /\ running
    /\ blocks < MaxBlocks
    /\ Len(audio_queue) < QUEUE_MAXSIZE
    /\ \E samples \in MicChunks :
          /\ audio_queue' = Append(audio_queue, Chunk(samples))
          /\ heard' = (heard \/ \E i \in 1..Len(samples) : samples[i] # 0)
    /\ blocks' = blocks + 1
    /\ UNCHANGED <<program, running, thread, buffer, noise_floor, last_bits,
                   last_packet_time, recent_packet_data, now, tx_seq, pending>>
    /\ UNCHANGED <<level_queue, bit_buffer, char_buffer, packet_buffer, receiving, last_bit,
                   bit_count, last_transition, silent_bits, same_bits, main_pc>>
    /\ UNCHANGED <<codec_vars, sender_vars, life_vars, ghost_vars, afsk_vars, cycle_vars>>

\* One pass of the loop of processing_thread that finds an item queued.
MicProcess ==
    /\ program = "viamic"
    /\ thread = "alive"
    /\ audio_queue # <<>>
    /\ audio_queue' = Tail(audio_queue)
    /\ IF Head(audio_queue) = None
       THEN /\ thread' = "exited"
            /\ UNCHANGED <<level_queue, bit_buffer, char_buffer, packet_buffer, receiving,
                           last_bit, bit_count, last_transition, silent_bits, same_bits>>
       ELSE LET chunk == Head(audio_queue).samples
                r == process_audio_data(chunk, receiver_state, 1)
            IN  /\ bit_buffer' = r.bit_buffer
                /\ char_buffer' = r.char_buffer
                /\ packet_buffer' = r.packet_buffer
                /\ receiving' = r.receiving
                /\ last_bit' = r.last_bit
                /\ bit_count' = r.bit_count
                /\ last_transition' = r.last_transition
                /\ silent_bits' = silent_bits + silent_periods(chunk)
                /\ same_bits' = run_after(chunk_bits(chunk), last_bit, same_bits)
                /\ IF level_queue < QUEUE_MAXSIZE
                   THEN level_queue' = level_queue + 1 /\ thread' = thread
                   ELSE level_queue' = level_queue /\ thread' = "blocked"
    /\ UNCHANGED <<program, running, buffer, noise_floor, last_bits, last_packet_time,
                   recent_packet_data, now, blocks, tx_seq, pending, heard, main_pc>>
    /\ UNCHANGED <<codec_vars, sender_vars, life_vars, ghost_vars, afsk_vars, cycle_vars>>

\* main's display loop takes a level from level_queue; a put that waits on the
\* full queue then completes
MicLevel ==
    /\ program = "viamic"
    /\ running
    /\ level_queue > 0
    /\ IF thread = "blocked"
       THEN thread' = "alive" /\ level_queue' = level_queue
       ELSE thread' = thread /\ level_queue' = level_queue - 1
    /\ UNCHANGED audio_queue
    /\ UNCHANGED <<program, running, buffer, noise_floor, last_bits, last_packet_time,
                   recent_packet_data, now, blocks, tx_seq, pending>>
    /\ UNCHANGED <<bit_buffer, char_buffer, packet_buffer, receiving, last_bit,
                   bit_count, last_transition, silent_bits, heard, same_bits, main_pc>>
    /\ UNCHANGED <<codec_vars, sender_vars, life_vars, ghost_vars, afsk_vars, cycle_vars>>

\* KeyboardInterrupt in main: the stream closes and the exit marker is queued
MicInterrupt ==
    /\ program = "viamic"
    /\ running
    /\ Len(audio_queue) < QUEUE_MAXSIZE
    /\ running' = FALSE
    /\ audio_queue' = Append(audio_queue, None)
    /\ UNCHANGED <<program, thread, buffer, noise_floor, last_bits, last_packet_time,
                   recent_packet_data, now, blocks, tx_seq, pending>>
    /\ UNCHANGED <<level_queue, bit_buffer, char_buffer, packet_buffer, receiving, last_bit,
                   bit_count, last_transition, silent_bits, heard, same_bits, main_pc>>
    /\ UNCHANGED <<codec_vars, sender_vars, life_vars, ghost_vars, afsk_vars, cycle_vars>>

NextMic ==
    \/ MicStart
    \/ MicCallback
    \/ MicProcess
    \/ MicLevel
    \/ MicInterrupt

SpecMic == InitMic /\ [][NextMic]_vars

\* C9: while every captured bit period has zero mark energy and zero space
\* energy, no bit is appended to the bit stream and nothing is received.
C9_NoiseRejection ==
    ~heard =>
        /\ silent_bits = 0
        /\ last_bit = NoBit
        /\ bit_buffer = <<>>
        /\ ~receiving

----------------------------------------------------------------------------
(* Packet dispatch of emilianoreciver.py *)

\* C6: when the same valid packet, new to the recent-packet set, is
\* dispatched one or more times in a row, the callback is invoked exactly
\* once during the run, whatever the set held before (ten entries included).
C6_DuplicateSuppression ==
    (run_len >= 1 /\ run_fresh) => run_calls = 1

\* C7: after a dispatch the recent-packet set holds at most ten entries, and
\* an entry removed by the dispatch is the oldest one inserted, never the
\* entry the dispatch has just inserted.
C7_OldestEvicted ==
    /\ Cardinality(recent_packet_data) <= RECENT_LIMIT
    /\ evicted # NoHash => (evicted = oldest /\ evicted # inserted)

----------------------------------------------------------------------------
(* Either frame receiver: emilianoreciver.py or afsk_receiver.py runs *)

InitReceivers == InitEmiliano \/ InitAfsk

NextReceivers ==
    \/ EmilianoStart
    \/ AfskStart
    \/ Stop
    \/ ThreadExit
    \/ Capture
    \/ AfskCapture
    \/ Tick
    \/ EmilianoCycle
    \/ AfskCycle

SpecReceivers == InitReceivers /\ [][NextReceivers]_vars

\* the CRC-16 computed over all of a region but its last two bytes equals the
\* big-endian value of those two bytes
crc_agrees(region) ==
    /\ Len(region) >= 4
    /\ crc16_xmodem(SubSeq(region, 1, Len(region) - 2))
         = from_bytes_big(SubSeq(region, Len(region) - 1, Len(region)))

\* C4: the callback is invoked with a packet only for a received region
\* whose computed CRC-16 equals its 2-byte big-endian trailer, and the packet
\* carries the id and type of that region.
C4_CallbackOnlyOnCrcMatch ==
    cb_packet # None =>
        /\ crc_agrees(cb_region)
        /\ cb_packet.packet_id = cb_region[1]
        /\ cb_packet.packet_type = cb_region[2]

\* A receiver has captured the frame with the inverted CRC bit as well as
\* audio that held a valid frame, and its callback has run for the valid one.
C4_Witness ==
    /\ cb_packet # None
    /\ crc_agrees(cb_region)
    /\ blocks >= 2
    /\ program = "afsk"

\* C8: every automatic adjustment leaves the noise floor less than or equal
\* to its value before the adjustment.
C8_NoiseFloorNeverRaised == floor_leq(noise_floor, floor_before)

----------------------------------------------------------------------------
(* Several frames in one buffer, emilianoreciver.py *)

\* the bytes Packet.decode is handed for a buffer of samples
byte_stream(samples) == bits_to_bytes(slice_bits(samples, SamplesPerBit))

\* the sender's frames that the byte stream of a buffer holds whole
frames_held(samples) ==
    {n \in 1..3 : contains(byte_stream(samples), sender_frame(n))}

\* C11: when the byte stream of the buffer holds two or more valid, distinct
\* frames, none is lost: a step of the running receiver that removes samples
\* from the buffer leaves every one of those frames delivered to the callback
\* or still whole in the buffer.
C11_EveryFrameDelivered ==
    [][(/\ program = "emiliano"
        /\ running
        /\ Len(buffer') < Len(buffer)
        /\ Cardinality(frames_held(buffer)) >= 2)
       => \A n \in frames_held(buffer) :
              \/ packet_hash(<<n>>) \in delivered'
              \/ n \in frames_held(buffer')]_vars

----------------------------------------------------------------------------
(* Capacity of the sample buffer *)

\* sample_rate * BUFFER_SECONDS of the receiver that runs
capacity == IF program = "afsk" THEN afsk_maxlen ELSE buffer_maxlen

\* the last n elements of a sequence, all of it when it is shorter
newest(all, n) ==
    IF Len(all) <= n THEN all ELSE SubSeq(all, Len(all) - n + 1, Len(all))

\* C12: the buffer never holds more than its capacity, and a capture leaves
\* in it the newest samples of the old contents followed by the block: what
\* is discarded is the oldest, every new sample that fits is kept.
C12_BufferBounded ==
    /\ [](Len(buffer) <= capacity)
    /\ [][blocks' = blocks + 1 =>
            \E samples \in FreeBlocks \cup AfskBlocks :
                buffer' = newest(buffer \o samples, capacity)]_vars

\* A capture has filled the buffer beyond its capacity: the buffer is full
\* and its first sample is no longer the first sample captured.
C12_Witness ==
    /\ running
    /\ blocks >= 2
    /\ Len(buffer) = capacity

----------------------------------------------------------------------------
(* emilianoreciverviamic.py on a silent line, chunk after chunk *)

FloodChunks == 11

\* audio_callback while the input is silent
MicFlood ==
    /\ program = "viamic"
    /\ running
    /\ blocks < FloodChunks
    /\ Len(audio_queue) < QUEUE_MAXSIZE
    /\ audio_queue' = Append(audio_queue, Chunk(silence_samples(SamplesPerBit * ChunkBits)))
    /\ blocks' = blocks + 1
    /\ UNCHANGED <<program, running, thread, buffer, noise_floor, last_bits,
                   last_packet_time, recent_packet_data, now, tx_seq, pending>>
    /\ UNCHANGED <<level_queue, bit_buffer, char_buffer, packet_buffer, receiving, last_bit,
                   bit_count, last_transition, silent_bits, heard, same_bits, main_pc>>
    /\ UNCHANGED <<codec_vars, sender_vars, life_vars, ghost_vars, afsk_vars, cycle_vars>>

NextMicFlood ==
    \/ MicStart
    \/ MicFlood
    \/ MicProcess
    \/ MicLevel
    \/ MicInterrupt

SpecMicFlood == InitMic /\ [][NextMicFlood]_vars

\* C13: while the stream is open the queue the callback puts into has room,
\* so that the put of the next chunk completes without waiting for the
\* processing thread.
C13_CallbackNeverBlocks ==
    (program = "viamic" /\ running) => Len(audio_queue) < QUEUE_MAXSIZE

\* C15: the processing thread never waits in the hand-off of a level to the
\* display loop.
C15_DeliveryNeverBlocks ==
    program = "viamic" => thread # "blocked"

----------------------------------------------------------------------------
(* The processing loop of emilianoreciver.py statement by statement, with
   the capture callback running between any two of its statements. The
   interpreter runs one thread at a time and switches threads between
   statements: np.array(self.buffer), len(self.buffer), popleft() and
   extend() are each a single step. *)

LoopMaxBlocks == 3

LoopBlocks ==
    { silence_samples(SamplesPerBit * SilenceBits),
      tx_samples(sender_frame(1) \o sender_frame(1)) }

\* retain = min(samples_per_bit * 8, len(self.buffer) // 4)
retain_of(length, spb) == IF spb * 8 < length \div 4 THEN spb * 8 ELSE length \div 4

\* range(len(self.buffer) - retain): the number of iterations
pop_count(length, keep) == IF length - keep > 0 THEN length - keep ELSE 0

\* _audio_callback on the PortAudio thread
LoopCapture ==
    /\ program = "emiliano"
    /\ blocks < LoopMaxBlocks
    /\ blocks' = blocks + 1
    /\ UNCHANGED tx_seq
    /\ \E samples \in LoopBlocks : AudioCallback(samples, buffer_maxlen)

\* The while test, the snapshot np.array(self.buffer) and the work on the
\* snapshot up to the callback: nothing of it reads the buffer again.
LoopDecode ==
    /\ program = "emiliano"
    /\ thread = "alive"
    /\ loop_pc = "wait"
    /\ running
    /\ pending' = FALSE
    /\ UNCHANGED <<program, running, buffer, noise_floor, now, blocks, tx_seq>>
    /\ UNCHANGED <<codec_vars, sender_vars, life_vars, afsk_vars, mic_vars, retain, to_pop>>
    /\ IF Len(buffer) < SamplesPerBit * 8 \/ power_below(buffer, noise_floor)
       THEN /\ outcome' = "quiet"
            /\ UNCHANGED <<thread, last_bits, last_packet_time, recent_packet_data,
                           ghost_vars, delivered, loop_pc>>
       ELSE LET bits == slice_bits(buffer, SamplesPerBit)
            IN  IF ~(bits # last_bits /\ Len(bits) >= 16)
                THEN /\ last_bits' = bits
                     /\ outcome' = "no new bits"
                     /\ UNCHANGED <<thread, last_packet_time, recent_packet_data,
                                    ghost_vars, delivered, loop_pc>>
                ELSE LET packet_bytes == bits_to_bytes(bits)
                         result == decode(packet_bytes)
                     IN  IF result = Raised
                         THEN /\ thread' = "crashed"
                              /\ outcome' = "raised"
                              /\ UNCHANGED <<last_bits, last_packet_time,
                                             recent_packet_data, ghost_vars, delivered,
                                             loop_pc>>
                         ELSE /\ thread' = thread
                              /\ last_bits' = pad_bits(bits)
                              /\ IF result = None
                                 THEN /\ outcome' = "no packet"
                                      /\ UNCHANGED <<last_packet_time, recent_packet_data,
                                                     ghost_vars, delivered, loop_pc>>
                                 ELSE /\ Deliver(result, region_of(packet_bytes))
                                      /\ loop_pc' = "retain"

\* retain = min(samples_per_bit * 8, len(self.buffer) // 4)
LoopRetain ==
    /\ program = "emiliano"
    /\ thread = "alive"
    /\ loop_pc = "retain"
    /\ retain' = retain_of(Len(buffer), SamplesPerBit)
    /\ loop_pc' = "range"
    /\ UNCHANGED <<codec_vars, sender_vars, life_vars, recv_vars, ghost_vars, afsk_vars, mic_vars>>
    /\ UNCHANGED <<delivered, outcome, to_pop>>

\* for _ in range(len(self.buffer) - retain): the length is read again
LoopRange ==
    /\ program = "emiliano"
    /\ thread = "alive"
    /\ loop_pc = "range"
    /\ to_pop' = pop_count(Len(buffer), retain)
    /\ loop_pc' = "pop"
    /\ UNCHANGED <<codec_vars, sender_vars, life_vars, recv_vars, ghost_vars, afsk_vars, mic_vars>>
    /\ UNCHANGED <<delivered, outcome, retain>>

\* One iteration of the popleft loop, or its end. popleft on an empty deque
\* raises IndexError, which nothing in the thread catches.
LoopPop ==
    /\ program = "emiliano"
    /\ thread = "alive"
    /\ loop_pc = "pop"
    /\ IF to_pop = 0
       THEN /\ loop_pc' = "wait"
            /\ UNCHANGED <<thread, buffer, to_pop>>
       ELSE IF buffer = <<>>
            THEN /\ thread' = "crashed"
                 /\ loop_pc' = "wait"
                 /\ UNCHANGED <<buffer, to_pop>>
            ELSE /\ buffer' = Tail(buffer)
                 /\ to_pop' = to_pop - 1
                 /\ UNCHANGED <<thread, loop_pc>>
    /\ UNCHANGED <<program, running, noise_floor, last_bits, last_packet_time,
                   recent_packet_data, now, blocks, tx_seq, pending>>
    /\ UNCHANGED <<codec_vars, sender_vars, life_vars, ghost_vars, afsk_vars, mic_vars>>
    /\ UNCHANGED <<delivered, outcome, retain>>

\* A loop that does not test running: the thread sleeps on.
LoopSleepOn ==
    /\ program = "emiliano"
    /\ loop_pc = "wait"
    /\ thread = "alive"
    /\ ~running
    /\ UNCHANGED vars

\* The while test finds running cleared: the thread returns.
LoopExit ==
    /\ program = "emiliano"
    /\ loop_pc = "wait"
    /\ ThreadExit

\* The statements that follow the dispatch of a cycle, and the while test
\* that ends the thread.
LoopFinish ==
    \/ LoopRetain
    \/ LoopRange
    \/ LoopPop
    \/ LoopExit

NextLoop ==
    \/ EmilianoStart
    \/ Stop
    \/ LoopCapture
    \/ LoopDecode
    \/ LoopRetain
    \/ LoopRange
    \/ LoopPop
    \/ LoopExit

SpecLoop == InitEmiliano /\ [][NextLoop]_vars

\* C14: under every interleaving of the callback's extend with the loop's
\* snapshot and its popleft loop the thread does not fail: the iterations
\* left of the popleft loop never exceed the samples in the buffer, so that
\* no popleft finds the buffer empty, and the thread is never ended by an
\* exception.
C14_SingleWriterSingleReader ==
    program = "emiliano" =>
        /\ thread # "crashed"
        /\ loop_pc = "pop" => to_pop <= Len(buffer)

\* The callback has appended to the buffer between the statements of a trim
\* that still has iterations to run, and the buffer is full.
C14_Witness ==
    /\ thread = "alive"
    /\ loop_pc = "pop"
    /\ to_pop > 0
    /\ Len(buffer) - to_pop > retain
    /\ Len(buffer) = buffer_maxlen

----------------------------------------------------------------------------
(* The loop goes on *)

\* C16: while running is set the processing thread is alive, whatever the
\* decode attempts before gave (packet delivered, duplicate, no packet): no
\* attempt ends the thread, and the thread ends only with running cleared.
C16_LoopNeverStuck ==
    /\ [](program \in {"emiliano", "afsk"} =>
            /\ thread # "crashed"
            /\ running => thread = "alive")
    /\ [][(thread = "alive" /\ thread' # "alive") => ~running]_vars

\* The loop has delivered a packet, then made another decode attempt that
\* gave the same packet again, and goes on.
C16_Witness ==
    /\ running
    /\ thread = "alive"
    /\ outcome = "duplicate"
    /\ delivered # {}

----------------------------------------------------------------------------
(* Cancellation *)

\* The processing thread is scheduled again and again: each statement of
\* the trim completes, time.sleep(0.1) returns and the while test is made.
CancelBlocks == 1

\* _audio_callback, for the few blocks captured before the stop
CancelCapture ==
    /\ program = "emiliano"
    /\ blocks < CancelBlocks
    /\ blocks' = blocks + 1
    /\ UNCHANGED tx_seq
    /\ \E samples \in LoopBlocks : AudioCallback(samples, buffer_maxlen)

NextCancel ==
    \/ EmilianoStart
    \/ Stop
    \/ CancelCapture
    \/ LoopDecode
    \/ LoopRetain
    \/ LoopRange
    \/ LoopPop
    \/ LoopExit

SpecLoopFair == InitEmiliano /\ [][NextCancel]_vars /\ WF_vars(LoopFinish)

----------------------------------------------------------------------------
(* Shape of an encoded frame *)

\* C18: in an encoded frame the flag value is the first byte and the last
\* byte and occurs nowhere between them; every escape byte between them is
\* followed, still inside the frame, by a flag or an escape with the mask
\* applied; so the flag search of Packet.decode takes exactly the bytes
\* between the two flags as the stuffed region.
C18_FlagOnlyAtBoundaries ==
    pc = "encoded" =>
        LET n == Len(raw_bytes)
        IN  /\ n >= 2
            /\ raw_bytes[1] = START_FLAG_VALUE
            /\ raw_bytes[n] = END_FLAG_VALUE
            /\ \A i \in 2..(n - 1) :
                  /\ raw_bytes[i] # START_FLAG_VALUE
                  /\ raw_bytes[i] = ESCAPE_VALUE =>
                        /\ i + 1 <= n - 1
                        /\ raw_bytes[i + 1] \in {Xor(START_FLAG_VALUE, ESCAPE_MASK),
                                                 Xor(ESCAPE_VALUE, ESCAPE_MASK)}
            /\ stuffed_of(raw_bytes) = [kind |-> "Bytes", bytes |-> SubSeq(raw_bytes, 2, n - 1)]

\* A frame whose payload is a flag byte followed by an escape byte has been
\* encoded.
C18_Witness ==
    /\ pc = "encoded"
    /\ data = <<START_FLAG_VALUE, ESCAPE_VALUE>>
    /\ Len(raw_bytes) >= Len(data) + 8

----------------------------------------------------------------------------
(* The frame of id 5, type 1, payload "HI" *)

\* The whole frame of id 5, type 1 and payload 48 49 has been received.
hi_frame_received ==
    /\ packet_id = 5
    /\ packet_type = 1
    /\ data = <<72, 73>>
    /\ prefix = <<>>
    /\ cut = 0
    /\ pc \in {"encoded", "decoded"}

\* C19: the frame encoded from id 5, type 1 and payload "HI" carries, between
\* its flags and before stuffing, the bytes 05 01 48 49 followed by the CRC of
\* these four bytes, D6 FD, high byte first; decoding it returns id 5, type 1
\* and payload "HI".
C19_HiExample ==
    hi_frame_received =>
        /\ frame_region(packet_id, packet_type, data) = <<5, 1, 72, 73, 214, 253>>
        /\ unstuff(stuffed_of(raw_bytes).bytes) =
               [kind |-> "Bytes", bytes |-> <<5, 1, 72, 73, 214, 253>>]
        /\ pc = "decoded" =>
               packet = [kind |-> "Packet", data |-> <<72, 73>>,
                         packet_id |-> 5, packet_type |-> 1]

\* The frame of the example has been decoded to a packet.
C19_Witness ==
    /\ hi_frame_received
    /\ pc = "decoded"
    /\ packet.kind = "Packet"
    /\ raw_bytes = <<126, 5, 1, 72, 73, 214, 253, 126>>

----------------------------------------------------------------------------
(* Flag and escape bytes inside a frame *)

\* What one byte of the region becomes on the wire.
wire_form(b) ==
    IF b = 126 THEN <<125, 94>>
    ELSE IF b = 125 THEN <<125, 93>>
    ELSE <<b>>

RECURSIVE wire_of(_)
wire_of(bytes) ==
    IF bytes = <<>> THEN <<>> ELSE wire_form(Head(bytes)) \o wire_of(Tail(bytes))

\* the bytes of header, payload and CRC trailer that need an escape
escaped_in(bytes) == {i \in 1..Len(bytes) : bytes[i] \in {125, 126}}

\* C20: between the flags of an encoded frame each 7E of header, payload or
\* CRC trailer stands as 7D 5E and each 7D as 7D 5D, every other byte as
\* itself; the un-stuffing loop of Packet.decode turns these bytes back into
\* header, payload and CRC trailer, and the packet decoded holds the 7E and
\* 7D bytes that were encoded.
C20_FlagInsideFrame ==
    pc \in {"encoded", "decoded"} =>
        LET region == frame_region(packet_id, packet_type, data)
            wire == SubSeq(raw_bytes, 2, Len(raw_bytes) - 1)
        IN  /\ wire = wire_of(region)
            /\ Len(wire) = Len(region) + Cardinality(escaped_in(region))
            /\ unstuff(wire) = [kind |-> "Bytes", bytes |-> region]
            /\ pc = "decoded" =>
                  /\ packet.kind = "Packet"
                  /\ <<packet.packet_id, packet.packet_type>> \o packet.data
                        = SubSeq(region, 1, Len(region) - 2)

\* A frame with a flag byte in its header, an escape byte in its payload
\* and a flag or escape byte in its CRC trailer has been decoded.
C20_Witness ==
    /\ pc = "decoded"
    /\ packet_id = 126
    /\ \E i \in 1..Len(data) : data[i] = 125
    /\ LET region == frame_region(packet_id, packet_type, data)
       IN  \E i \in (Len(region) - 1)..Len(region) : region[i] \in {125, 126}

----------------------------------------------------------------------------
(* Classification of one bit period *)

\* The symbol the list bits holds for a bit period: 1 is Mark, 0 is Space.
symbol_of(bit) == IF bit = 1 THEN "Mark" ELSE "Space"

\* mark_energy + space_energy < noise floor; the energies are in units of
\* 0.000001 and the floor in units of 0.001
energy_below(mark, space, floor) == (mark + space) * floor.den < floor.num * 1000

\* The rule of the bit slicer for one pair of energies.
classify(mark, space, floor) ==
    IF energy_below(mark, space, floor) THEN "Indeterminate"
    ELSE IF mark > space THEN "Mark" ELSE "Space"

\* C21: a cycle that slices the buffer gives for every bit period the symbol
\* of the rule: Indeterminate when mark energy plus space energy is below the
\* noise floor, otherwise Mark exactly when the mark energy is the greater
\* and Space if not.
C21_BitClassification ==
    [][(program = "emiliano" /\ running /\ last_bits' # last_bits) =>
          \A k \in 1..((Len(buffer) - 1) \div SamplesPerBit) :
              LET from == (k - 1) * SamplesPerBit + 1
                  to == k * SamplesPerBit
              IN  symbol_of(last_bits'[k]) =
                      classify(mark_energy(buffer, from, to),
                               space_energy(buffer, from, to), noise_floor)]_vars

----------------------------------------------------------------------------
(* afsk_receiver.py: a carrier is heard, then the line falls silent *)

StaleMaxBlocks == 2

\* A carrier without data, and silence for as long as the buffer holds.
StaleBlocks ==
    { idle_samples(AfskSamplesPerBit * CarrierBits),
      silence_samples(afsk_maxlen) }

StaleCapture ==
    /\ program = "afsk"
    /\ blocks < StaleMaxBlocks
    /\ blocks' = blocks + 1
    /\ UNCHANGED tx_seq
    /\ \E samples \in StaleBlocks : AudioCallback(samples, afsk_maxlen)

NextAfskStale ==
    \/ AfskStart
    \/ Stop
    \/ ThreadExit
    \/ StaleCapture
    \/ Tick
    \/ AfskCycle

SpecAfskStale == InitAfsk /\ [][NextAfskStale]_vars

\* C22: a cycle changes the noise floor only when a signal was acquired more
\* than the stale duration ago, no packet was delivered within the stale
\* duration, and the signal power is still at or above the floor; the
\* adjustment ends the acquisition, so that another one needs a new
\* acquisition and another stale duration.
C22_AdjustOnlyWhenStale ==
    [][(program = "afsk" /\ noise_floor' # noise_floor) =>
          /\ found_signal
          /\ now - signal_start_time > 10
          /\ now - last_packet_time > 10
          /\ ~power_below(buffer, noise_floor)
          /\ ~found_signal']_vars

----------------------------------------------------------------------------
(* The senders asfk_sender.py and sender4.py: framing and tone rendering.
   A sample is represented by the phase of its sine, counted in units of
   1/SAMPLE_RATE of a cycle and taken modulo one cycle; fades and the
   scaling of the amplitude do not change it. *)

MaxPreambleBits == 17
MaxDataBits == 2

Senders == {"asfk_sender", "sender4"}

SAMPLE_RATE == 44100

mark_freq(sender) == IF sender = "sender4" THEN 1200 ELSE 1000
space_freq(sender) == IF sender = "sender4" THEN 2200 ELSE 1600
baud_rate(sender) == IF sender = "sender4" THEN 300 ELSE 100

\* int(SAMPLE_RATE / BAUD_RATE)
bit_length(sender) == SAMPLE_RATE \div baud_rate(sender)

\* '10101010' * 8
START_MARKER == [i \in 1..64 |-> IF i % 2 = 1 THEN 1 ELSE 0]

\* '01010101' * 8
END_MARKER == [i \in 1..64 |-> IF i % 2 = 1 THEN 0 ELSE 1]

\* A preamble made of flag bytes instead of alternating bits.
flag_fill(n) == [i \in 1..n |-> IF (i - 1) % 8 \in {0, 7} THEN 0 ELSE 1]

\* generate_preamble, and the bits of generate_sync_pattern: '1' (the mark
\* tone) for i even, '0' (the space tone) for i odd, i counted from 0
generate_preamble(n) == [i \in 1..n |-> IF (i - 1) % 2 = 0 THEN 1 ELSE 0]

\* add_protocol_framing of asfk_sender.py; sender4.py sends the sync pattern
\* followed by the bits of the message
add_protocol_framing(sender, n, bits) ==
    IF sender = "asfk_sender"
    THEN generate_preamble(n) \o START_MARKER \o bits \o END_MARKER
    ELSE generate_preamble(n) \o bits

\* freq = mark_freq if bit == '1' else space_freq
freq_of(sender, bit) == IF bit = 1 THEN mark_freq(sender) ELSE space_freq(sender)

\* calculate_phase_continuity: prev_phase + angular_freq * samples
calculate_phase_continuity(prev_phase, frequency, samples) ==
    (prev_phase + frequency * samples) % SAMPLE_RATE

\* The phase the sender gives the first sample of a bit of frequency freq:
\* asfk_sender.py advances self.phase and starts the bit there, sender4.py
\* starts every bit at t = 0.
start_phase(sender, prev_phase, freq) ==
    IF sender = "asfk_sender"
    THEN calculate_phase_continuity(prev_phase, freq, bit_length(sender))
    ELSE 0

\* phase of sample t of a bit: 2 * pi * freq * t / sample_rate + phase
sample_phase(freq, t, start) == (freq * t + start) % SAMPLE_RATE

InitSender ==
    /\ program \in Senders
    /\ pc = "input"
    /\ preamble_bits \in 0..MaxPreambleBits
    /\ binary_data \in SeqsUpTo({0, 1}, MaxDataBits)
    /\ framed_data = <<>>
    /\ bit_index = 0
    /\ phase = 0
    /\ first_phase = 0
    /\ last_phase = 0
    /\ packet_id = 0
    /\ packet_type = 0
    /\ data = <<>>
    /\ prefix = <<>>
    /\ cut = 0
    /\ raw_bytes = <<>>
    /\ stuffed_frame = <<>>
    /\ unstuffed = None
    /\ packet = None
    /\ crc_values = <<>>
    /\ running = FALSE
    /\ thread = "none"
    /\ buffer = <<>>
    /\ noise_floor = [num |-> 0, den |-> 1]
    /\ last_bits = <<>>
    /\ last_packet_time = 0
    /\ recent_packet_data = {}
    /\ now = 0
    /\ blocks = 0
    /\ tx_seq = 0
    /\ pending = FALSE
    /\ GhostInit
    /\ AfskIdle
    /\ MicIdle
    /\ LifeIdle

\* The bits to send are put together.
FrameBits ==
    /\ program \in Senders
    /\ pc = "input"
    /\ framed_data' = add_protocol_framing(program, preamble_bits, binary_data)
    /\ pc' = "framed"
    /\ UNCHANGED <<preamble_bits, binary_data, bit_index, phase, first_phase, last_phase>>
    /\ UNCHANGED <<crc_values, packet_id, packet_type, data, prefix, cut, raw_bytes, stuffed_frame,
                   unstuffed, packet>>
    /\ UNCHANGED <<recv_vars, life_vars, ghost_vars, afsk_vars, mic_vars, cycle_vars>>

\* One pass of the loop over the bits in generate_afsk_signal, or in
\* generate_sync_pattern and generate_afsk.
RenderBit ==
    /\ program \in Senders
    /\ pc = "framed"
    /\ bit_index < Len(framed_data)
    /\ LET freq == freq_of(program, framed_data[bit_index + 1])
           start == start_phase(program, phase, freq)
       IN  /\ phase' = start
           /\ first_phase' = sample_phase(freq, 0, start)
           /\ last_phase' = sample_phase(freq, bit_length(program) - 1, start)
    /\ bit_index' = bit_index + 1
    /\ UNCHANGED <<preamble_bits, binary_data, framed_data>>
    /\ UNCHANGED <<codec_vars, recv_vars, life_vars, ghost_vars, afsk_vars, mic_vars, cycle_vars>>

NextSender ==
    \/ FrameBits
    \/ RenderBit

SpecSender == InitSender /\ [][NextSender]_vars

\* the eight bits of the flag byte, most significant first and least
\* significant first
flag_patterns ==
    { bits_msb_first(<<START_FLAG_VALUE>>), bits_of_bytes(<<START_FLAG_VALUE>>) }

\* C23: no eight consecutive bits of the preamble, at any offset, are the
\* bits of the flag byte 0x7E in either bit order, whatever the configured
\* length of the preamble.
C23_NoFlagInPreamble ==
    (program \in Senders /\ pc = "framed") =>
        \A k \in 1..(preamble_bits - 7) :
            SubSeq(framed_data, k, k + 7) \notin flag_patterns

\* A preamble of two bytes or more, with windows at even and at odd offsets,
\* has been generated.
C23_Witness ==
    /\ program \in Senders
    /\ pc = "framed"
    /\ preamble_bits >= 16
    /\ SubSeq(framed_data, 1, 2) = <<1, 0>>

\* C24: the phase of the first sample of every bit after the first is the
\* phase of the last sample of the bit before it, advanced by one sample of
\* the frequency of that bit.
C24_PhaseContinuity ==
    [][(program \in Senders /\ pc = "framed" /\ bit_index >= 1
           /\ bit_index' = bit_index + 1) =>
          first_phase' = sample_phase(freq_of(program, framed_data[bit_index]), 1,
                                       last_phase)]_vars

----------------------------------------------------------------------------
(* Dispatch of a packet that was delivered before *)

\* the packet a cycle of emilianoreciver.py decodes from the buffer
decoded_from(samples) == decode(byte_stream(samples))

\* C25: a cycle that dispatches a packet whose hash is in the recent-packet
\* set does not invoke the callback and leaves the set as it is (and the
\* last-packet time with it).
C25_DuplicateSilentlyDropped ==
    [][(/\ program = "emiliano"
        /\ running
        /\ Len(buffer') < Len(buffer)
        /\ decoded_from(buffer).kind = "Packet"
        /\ packet_hash(decoded_from(buffer).data) \in recent_packet_data)
       => /\ outcome' = "duplicate"
          /\ inserted' = NoHash
          /\ delivered' = delivered
          /\ cb_packet' = cb_packet
          /\ cb_region' = cb_region
          /\ recent_packet_data' = recent_packet_data
          /\ last_packet_time' = last_packet_time]_vars

\* A frame has been dispatched again while its hash was in the set, which
\* holds other hashes as well.
C25_Witness ==
    /\ program = "emiliano"
    /\ outcome = "duplicate"
    /\ run_len >= 2
    /\ run_hash \in recent_packet_data
    /\ Cardinality(recent_packet_data) >= 2

----------------------------------------------------------------------------
(* CRC mismatch in emilianoreciver.py *)

\* The un-stuffed region of the first frame candidate of a byte stream when
\* it is long enough and its CRC does not match; <<>> in every other case.
failed_region(bytes) ==
    LET sf == stuffed_of(bytes)
    IN  IF sf = None THEN <<>>
        ELSE LET u == unstuff(sf.bytes)
             IN  IF u.kind # "Bytes" THEN <<>>
                 ELSE IF Len(u.bytes) < 4 THEN <<>>
                 ELSE IF validate(u.bytes) = None THEN u.bytes ELSE <<>>

\* C26: a cycle whose decode attempt ends in a CRC mismatch delivers nothing
\* and leaves the recent-packet set and the last-packet time unchanged, and
\* the region it rejects is not the region that the cycle before rejected:
\* a region that failed is not validated a second time.
C26_CrcMismatchDiscarded ==
    [][(/\ program = "emiliano"
        /\ running
        /\ last_bits' # last_bits
        /\ failed_region(byte_stream(buffer)) # <<>>)
       => /\ delivered' = delivered
          /\ cb_packet' = cb_packet
          /\ recent_packet_data' = recent_packet_data
          /\ last_packet_time' = last_packet_time
          /\ failed_region(bits_to_bytes(last_bits)) # failed_region(byte_stream(buffer))]_vars

----------------------------------------------------------------------------
(* Short regions *)

\* The byte stream holds a frame candidate (flag to flag) whose un-stuffing
\* runs to the end of the candidate.
has_region(bytes) ==
    /\ stuffed_of(bytes) # None
    /\ unstuff(stuffed_of(bytes).bytes).kind = "Bytes"

\* C27: a frame candidate whose un-stuffed region has fewer than 4 bytes
\* yields no packet; a region of exactly 4 bytes whose CRC matches yields a
\* packet with the region's id and type and an empty payload.
C27_MinimumRegion ==
    (pc = "decoded" /\ has_region(raw_bytes))
        => LET region == region_of(raw_bytes)
           IN  /\ Len(region) < 4 => packet = None
               /\ (Len(region) = 4 /\ crc_matches(region))
                      => packet = [kind |-> "Packet", data |-> <<>>,
                                   packet_id |-> region[1], packet_type |-> region[2]]

\* A stream whose first candidate is a region of exactly 4 bytes with a
\* matching CRC was decoded to a packet.
C27_Witness ==
    /\ pc = "decoded"
    /\ has_region(raw_bytes)
    /\ Len(region_of(raw_bytes)) = 4
    /\ crc_matches(region_of(raw_bytes))
    /\ packet.kind = "Packet"

----------------------------------------------------------------------------
(* Escape bytes in arbitrary frame candidates *)

\* The receiver gets the drawn bytes between two flags: a frame candidate
\* that no encoder need have produced.
ReceiveCandidate ==
    /\ pc = "input"
    /\ raw_bytes' = <<START_FLAG_VALUE>> \o data \o <<END_FLAG_VALUE>>
    /\ pc' = "encoded"
    /\ UNCHANGED <<crc_values, packet_id, packet_type, data, prefix, cut, stuffed_frame, unstuffed, packet>>
    /\ UNCHANGED <<recv_vars, sender_vars, life_vars, ghost_vars, afsk_vars, mic_vars, cycle_vars>>

NextCandidate == ReceiveCandidate \/ DecodeStep

SpecCandidate == InitStuff /\ [][NextCandidate]_vars

\* The scan of the un-stuffing loop reaches position i (1-based) of sf: the
\* bytes before it are consumed whole, none of them an escape waiting for
\* the byte at i.
scan_reaches(sf, i) == unstuff(SubSeq(sf, 1, i - 1)).kind = "Bytes"

\* C28: at every escape byte the scan reaches, the byte that follows is
\* consumed (the output continues with that byte XOR 0x20 and the scan goes
\* on two bytes later), and a candidate whose escape byte is its last byte
\* is rejected and yields no packet.
C28_EscapeConsumesNext ==
    pc = "decoded" =>
        LET sf == stuffed_of(raw_bytes).bytes
        IN  \A i \in 1..Len(sf) :
              (sf[i] = ESCAPE_VALUE /\ scan_reaches(sf, i)) =>
                 IF i = Len(sf)
                 THEN unstuff(sf) = None /\ packet = None
                 ELSE LET before == unstuff(SubSeq(sf, 1, i - 1))
                          after == unstuff(SubSeq(sf, i + 2, Len(sf)))
                      IN  IF after = None
                          THEN unstuff(sf) = None /\ packet = None
                          ELSE unstuff(sf) =
                                 [kind |-> "Bytes",
                                  bytes |-> before.bytes
                                            \o <<Xor(sf[i + 1], ESCAPE_MASK)>>
                                            \o after.bytes]

\* A candidate of three escape bytes was decoded: the first consumed the
\* second, the third had no byte after it.
C28_Witness ==
    /\ pc = "decoded"
    /\ stuffed_of(raw_bytes).bytes = <<ESCAPE_VALUE, ESCAPE_VALUE, ESCAPE_VALUE>>
    /\ packet = None

----------------------------------------------------------------------------
(* State ownership *)

\* The receiver state that the processing loop keeps between its passes.
owned_state == <<noise_floor, recent_packet_data, last_packet_time>>

\* C29: a step of the audio callback changes the sample buffer and leaves
\* the noise floor, the recent-packet set, the last-packet time and every
\* other field of the receiver as they were; the noise floor, the
\* recent-packet set and the last-packet time change only in a pass of the
\* processing loop, taken while the processing thread is alive.
C29_StateOwnership ==
    [][/\ blocks' # blocks
          => /\ owned_state' = owned_state
             /\ UNCHANGED <<running, thread, last_bits, found_signal, signal_start_time>>
       /\ owned_state' # owned_state
          => /\ thread = "alive"
             /\ EmilianoCycle \/ AfskCycle]_vars

\* The callback has appended a block after the processing loop recorded a
\* delivered packet.
C29_Witness ==
    /\ pending
    /\ blocks >= 2
    /\ buffer # <<>>
    /\ last_packet_time > 0
    /\ recent_packet_data # {}

----------------------------------------------------------------------------
(* The two crc16_xmodem functions *)

MaxCrcLen == 3      \* longest byte sequence drawn as CRC input

\* Byte values drawn as CRC inputs: zero, low bits, the digit '1', and bytes
\* with the top bit set.
CrcVals == {0, 1, 49, 128, 255}

InitCrc ==
    /\ pc = "input"
    /\ packet_id = 0
    /\ packet_type = 0
    /\ data \in SeqsUpTo(CrcVals, MaxCrcLen)
    /\ prefix = <<>>
    /\ cut = 0
    /\ raw_bytes = <<>>
    /\ stuffed_frame = <<>>
    /\ unstuffed = None
    /\ packet = None
    /\ crc_values = <<>>
    /\ ReceiverIdle

\* Both receivers compute the CRC of the drawn bytes.
CrcStep ==
    /\ pc = "input"
    /\ crc_values' = <<crc16_xmodem(data), afsk_crc16_xmodem(data)>>
    /\ pc' = "summed"
    /\ UNCHANGED <<packet_id, packet_type, data, prefix, cut, raw_bytes, stuffed_frame,
                   unstuffed, packet>>
    /\ UNCHANGED <<recv_vars, sender_vars, life_vars, ghost_vars, afsk_vars, mic_vars, cycle_vars>>

NextCrc == CrcStep

SpecCrc == InitCrc /\ [][NextCrc]_vars

\* C30: crc16_xmodem of emilianoreciver.py returns the CRC-16/XMODEM of its
\* input (polynomial 0x1021, initial value 0, MSB first, no reflection, no
\* final XOR), a value in 0..65535, 0 for the empty sequence, and the same
\* value as crc16_xmodem of afsk_receiver.py. The first conjunct is the
\* published check value of CRC-16/XMODEM: 0x31C3 for the ASCII digits
\* "123456789".
C30_Crc16Xmodem ==
    /\ crc16_xmodem(<<49, 50, 51, 52, 53, 54, 55, 56, 57>>) = 12739
    /\ pc = "summed" =>
          /\ crc_values[1] = xmodem_reference(data)
          /\ crc_values[1] \in 0..65535
          /\ data = <<>> => crc_values[1] = 0
          /\ crc_values[2] = crc_values[1]

\* The CRC of a sequence of several bytes whose first byte has its top bit
\* set was computed, and is not zero.
C30_Witness ==
    /\ pc = "summed"
    /\ Len(data) >= 2
    /\ data[1] >= 128
    /\ crc_values[1] # 0

----------------------------------------------------------------------------
(* Decode attempts and new bits *)

\* The outcomes of a pass of the processing loop in which Packet.decode was
\* called.
decode_attempted(result) == result \in {"no packet", "delivered", "duplicate", "raised"}

\* The previous pass of the loop extracted bits and left the buffer as it
\* was, and no block was captured since: this pass extracts the same bits.
same_bits_as_before ==
    /\ ~pending
    /\ outcome \in {"no packet", "no new bits"}

\* The conditions under which a pass of the loop over this buffer reaches
\* Packet.decode: enough samples, power not below the floor, and bits that
\* differ from last_bits and number at least 16.
looks_for_packets(samples, floor, last) ==
    /\ ~(Len(samples) < SamplesPerBit * 8)
    /\ ~power_below(samples, floor)
    /\ LET bits == slice_bits(samples, SamplesPerBit)
       IN  bits # last /\ Len(bits) >= 16

\* C31: when the previous pass of the processing loop extracted bits and the
\* buffer has not changed since, the next pass, which extracts the same
\* bits, makes no decode attempt, whatever the length of the bit sequence.
C31_DecodeOnlyOnNewBits ==
    (program = "emiliano" /\ running /\ thread = "alive" /\ same_bits_as_before)
        => ~looks_for_packets(buffer, noise_floor, last_bits)

----------------------------------------------------------------------------
(* The buffer after a decoded packet *)

\* samples_per_bit of the receiver that runs
samples_per_bit == IF program = "afsk" THEN AfskSamplesPerBit ELSE SamplesPerBit

\* min(16 bit periods, a quarter of a buffer of n samples)
retain_limit(n) ==
    IF samples_per_bit * 16 < n \div 4 THEN samples_per_bit * 16 ELSE n \div 4

\* The byte stream that a pass of the loop of afsk_receiver.py searches.
afsk_byte_stream(samples) ==
    bits_to_bytes_msb_first(consolidate(oversampled_bits(samples, AfskSamplesPerBit)))

\* A pass of the running receiver's loop over these samples would find a
\* packet.
holds_packet(samples) ==
    IF program = "afsk"
    THEN /\ ~(Len(samples) < AfskSamplesPerBit * 16)
         /\ Len(consolidate(oversampled_bits(samples, AfskSamplesPerBit))) >= 32
         /\ first_accepted(afsk_byte_stream(samples)) # <<>>
    ELSE looks_for_packets(samples, noise_floor, <<>>)
         /\ decoded_from(samples).kind = "Packet"

\* C32: a pass of the processing loop that decodes a packet hands at most
\* one packet to the callback and leaves in the buffer only the newest
\* samples, at most min(16 bit periods, a quarter of the buffer) of them;
\* what is left holds no packet, so the frame is not found again.
C32_TrimAfterPacket ==
    [][(/\ EmilianoCycle \/ AfskCycle
        /\ outcome' \in {"delivered", "duplicate"})
       => /\ Cardinality(delivered' \ delivered) <= 1
          /\ Len(buffer') <= retain_limit(Len(buffer))
          /\ buffer' = SubSeq(buffer, Len(buffer) - Len(buffer') + 1, Len(buffer))
          /\ ~holds_packet(buffer')]_vars

\* The length-prefixed receiver has delivered a packet and kept 16 bit
\* periods of the newest samples.
C32_Witness ==
    /\ program = "afsk"
    /\ outcome = "delivered"
    /\ ~pending
    /\ cb_packet.kind = "Packet"
    /\ Len(buffer) = AfskSamplesPerBit * 16

----------------------------------------------------------------------------
(* The packet scan of afsk_receiver.py on arbitrary byte streams *)

MaxSyncPrefix == 2      \* longest run of bytes drawn ahead of a frame

\* Bytes drawn ahead of a frame: the sync byte and the start byte.
SyncPrefixVals == {SYNC_BYTE, START_BYTE}

\* a frame whose length field is replaced by the 16-bit value n
with_length(frame, n) ==
    [frame EXCEPT ![12] = n \div 256, ![13] = n % 256]

\* a frame whose closing start byte is replaced by a zero byte
without_end(frame) == [frame EXCEPT ![Len(frame)] = 0]

\* Frames as they may arrive: correct ones with and without data, and ones
\* with a wrong CRC, a length field beyond the data, a length field over the
\* maximum, and no closing byte.
ParseFrames ==
    { afsk_frame(7, 1, <<>>),
      afsk_frame(7, 1, <<72>>),
      afsk_corrupted_frame(7, 1, <<72>>),
      with_length(afsk_frame(7, 1, <<72>>), 2),
      with_length(afsk_frame(7, 1, <<72>>), MAX_DATA_LEN + 1),
      without_end(afsk_frame(7, 1, <<72>>)) }

\* Each frame after each run of bytes, with every number of bytes lost at
\* the end.
ParseStreams ==
    UNION { { received(before, frame, n) : n \in 0..Len(frame) } :
              before \in SeqsUpTo(SyncPrefixVals, MaxSyncPrefix),
              frame \in ParseFrames }

InitParse ==
    /\ pc = "encoded"
    /\ packet_id = 0
    /\ packet_type = 0
    /\ data = <<>>
    /\ prefix = <<>>
    /\ cut = 0
    /\ raw_bytes \in ParseStreams
    /\ stuffed_frame = <<>>
    /\ unstuffed = None
    /\ packet = None
    /\ crc_values = <<>>
    /\ ReceiverIdle

\* The scan for a packet over the byte stream: the region at which the loop
\* breaks, and the packet handed to the callback.
ParseStep ==
    /\ pc = "encoded"
    /\ LET region == first_accepted(raw_bytes)
       IN  /\ unstuffed' = (IF region = <<>> THEN None
                             ELSE [kind |-> "Bytes", bytes |-> region])
           /\ packet' = (IF region = <<>> THEN None ELSE packet_of(region))
    /\ pc' = "parsed"
    /\ UNCHANGED <<crc_values, packet_id, packet_type, data, prefix, cut, raw_bytes,
                   stuffed_frame>>
    /\ UNCHANGED <<recv_vars, sender_vars, life_vars, ghost_vars, afsk_vars, mic_vars, cycle_vars>>

NextParse == ParseStep

SpecParse == InitParse /\ [][NextParse]_vars

\* The 0-based indices that the scan reads by subscript at sync position i.
subscripts_at(bytes_data, i) ==
    LET len == Len(bytes_data)
        packet_start == i + 9
    IN  IF slice(bytes_data, i, i + 2) # <<SYNC_BYTE, SYNC_BYTE>> THEN {}
        ELSE {i + 8} \cup
             (IF bytes_data[i + 8 + 1] # START_BYTE THEN {}
              ELSE IF ~(packet_start + 2 <= len) THEN {}
              ELSE {packet_start, packet_start + 1} \cup
                   (IF ~(packet_start + 4 <= len) THEN {}
                    ELSE LET data_len == from_bytes_big(slice(bytes_data, packet_start + 2,
                                                              packet_start + 4))
                             expected_end == packet_start + 4 + data_len + 2
                         IN  IF ~(0 <= data_len /\ data_len <= MAX_DATA_LEN) THEN {}
                             ELSE IF expected_end + 1 <= len THEN {expected_end} ELSE {}))

\* for i in range(len(bytes_data) - 9)
subscripts_read(bytes_data) ==
    UNION { subscripts_at(bytes_data, i) : i \in 0..(Len(bytes_data) - 10) }

\* The tests of the claim at byte position i of a stream b (1-based
\* sequence, 0-based position), written out on the bytes.
candidate_ok(b, i) ==
    /\ i + 14 <= Len(b)
    /\ b[i + 1] = 170 /\ b[i + 2] = 170
    /\ b[i + 9] = 126
    /\ LET n == 256 * b[i + 12] + b[i + 13]
       IN  /\ n <= 1000
           /\ i + 16 + n <= Len(b)
           /\ b[i + 16 + n] = 126
           /\ crc16_xmodem(SubSeq(b, i + 10, i + 13 + n))
                = 256 * b[i + 14 + n] + b[i + 15 + n]

\* the packet that the bytes at position i describe
candidate_packet(b, i) ==
    [kind |-> "Packet", data |-> SubSeq(b, i + 14, i + 13 + 256 * b[i + 12] + b[i + 13]),
     packet_id |-> b[i + 10], packet_type |-> b[i + 11]]

\* C33: the scan of the length-prefixed receiver hands a packet to the
\* callback only for a position i with AA AA at i and i+1, 0x7E at i+8, a
\* length of at most 1000, 0x7E right after the CRC, and a CRC over id,
\* type, length and data equal to the received one; and every index the
\* scan reads lies within the byte stream.
C33_ScanAcceptsOnlyValid ==
    pc = "parsed" =>
        /\ packet # None
              => \E i \in 0..(Len(raw_bytes) - 1) :
                    candidate_ok(raw_bytes, i) /\ packet = candidate_packet(raw_bytes, i)
        /\ subscripts_read(raw_bytes) \subseteq 0..(Len(raw_bytes) - 1)

\* A stream with sync bytes ahead of a whole frame was scanned and its
\* packet found.
C33_Witness ==
    /\ pc = "parsed"
    /\ packet # None
    /\ packet.data = <<72>>
    /\ candidate_ok(raw_bytes, 2)

----------------------------------------------------------------------------
(* process_bit of emilianoreciverviamic.py, bit by bit *)

MaxBits == 23       \* bits handed to process_bit in a run

\* process_bit is called with one more bit; blocks counts the calls.
BitStep ==
    /\ program = "viamic"
    /\ blocks < MaxBits
    /\ blocks' = blocks + 1
    /\ \E bit \in {0, 1} :
          LET r == process_bit(receiver_state, bit)
          IN  /\ bit_buffer' = r.bit_buffer
              /\ char_buffer' = r.char_buffer
              /\ packet_buffer' = r.packet_buffer
              /\ receiving' = r.receiving
              /\ last_bit' = r.last_bit
              /\ bit_count' = r.bit_count
              /\ last_transition' = r.last_transition
              /\ same_bits' = run_after(<<bit>>, last_bit, same_bits)
    /\ UNCHANGED <<program, running, thread, buffer, noise_floor, last_bits,
                   last_packet_time, recent_packet_data, now, tx_seq, pending>>
    /\ UNCHANGED <<audio_queue, level_queue, silent_bits, heard, main_pc>>
    /\ UNCHANGED <<codec_vars, sender_vars, life_vars, ghost_vars, afsk_vars, cycle_vars>>

NextBits == BitStep

SpecBits == InitMic /\ [][NextBits]_vars

\* the value of eight data bits, least significant first
data_value(bits) ==
    bits[1] + 2 * bits[2] + 4 * bits[3] + 8 * bits[4] + 16 * bits[5] + 32 * bits[6]
    + 64 * bits[7] + 128 * bits[8]

\* C34: bit_count is always between 0 and 10 and, while receiving, equals
\* the number of buffered bits; a character reaches the character buffer
\* (or, through it, the packet buffer) only in the call that brings the
\* tenth bit, with the first buffered bit 0 and the tenth bit 1, and it is
\* the value of the eight bits between them; the tenth bit is always added
\* to nine buffered bits, so decode_character sees exactly 10.
C34_CharacterFraming ==
    /\ [](/\ bit_count \in 0..10
          /\ receiving => bit_count = Len(bit_buffer))
    /\ [][/\ (char_buffer' # char_buffer \/ packet_buffer' # packet_buffer)
              => /\ receiving
                 /\ bit_count = 9
                 /\ Len(bit_buffer) = 9
                 /\ bit_buffer[1] = 0
                 /\ last_bit' = 1
                 /\ \/ char_buffer' = Append(char_buffer, data_value(Tail(bit_buffer)))
                    \/ char_buffer' = <<>>
          /\ (receiving /\ bit_count = 9) => Len(bit_buffer') \in {0, 10}]_vars

\* A character was decoded from ten bits and a new start bit has since been
\* taken.
C34_Witness ==
    /\ program = "viamic"
    /\ char_buffer # <<>>
    /\ receiving
    /\ bit_count = 1
    /\ bit_buffer = <<0>>

\* C35: once more than 20 consecutive identical bits have been handed to
\* process_bit the receiver is not receiving, its bit buffer is empty and
\* bit_count is 0; and reception starts only on a 0 bit that follows a 1 bit
\* or is the very first bit.
C35_ResetAndStart ==
    /\ [](same_bits > TRANSITION_LIMIT
            => ~receiving /\ bit_buffer = <<>> /\ bit_count = 0)
    /\ [][(~receiving /\ receiving')
            => last_bit' = 0 /\ (last_bit = 1 \/ last_bit = NoBit)]_vars

----------------------------------------------------------------------------
(* Shutdown of emilianoreciverviamic.py *)

ShutdownChunks == 21    \* chunks the sound card delivers in a run

\* audio_callback on a silent line, for as long as the stream is open
MicStream ==
    /\ program = "viamic"
    /\ running
    /\ blocks < ShutdownChunks
    /\ Len(audio_queue) < QUEUE_MAXSIZE
    /\ audio_queue' = Append(audio_queue, Chunk(silence_samples(SamplesPerBit * ChunkBits)))
    /\ blocks' = blocks + 1
    /\ UNCHANGED <<program, running, thread, buffer, noise_floor, last_bits,
                   last_packet_time, recent_packet_data, now, tx_seq, pending>>
    /\ UNCHANGED <<level_queue, bit_buffer, char_buffer, packet_buffer, receiving, last_bit,
                   bit_count, last_transition, silent_bits, heard, same_bits, main_pc>>
    /\ UNCHANGED <<codec_vars, sender_vars, life_vars, ghost_vars, afsk_vars, cycle_vars>>

\* KeyboardInterrupt in the display loop of main: the loop is left and the
\* finally block stops and closes the stream.
MicStop ==
    /\ program = "viamic"
    /\ running
    /\ main_pc = "listening"
    /\ running' = FALSE
    /\ main_pc' = "stopping"
    /\ UNCHANGED <<program, thread, buffer, noise_floor, last_bits, last_packet_time,
                   recent_packet_data, now, blocks, tx_seq, pending>>
    /\ UNCHANGED <<audio_queue, level_queue, bit_buffer, char_buffer, packet_buffer,
                   receiving, last_bit, bit_count, last_transition, silent_bits, heard,
                   same_bits>>
    /\ UNCHANGED <<codec_vars, sender_vars, life_vars, ghost_vars, afsk_vars, cycle_vars>>

\* audio_queue.put(None), which waits while the queue is full
MicPutExit ==
    /\ program = "viamic"
    /\ main_pc = "stopping"
    /\ Len(audio_queue) < QUEUE_MAXSIZE
    /\ audio_queue' = Append(audio_queue, None)
    /\ main_pc' = "joining"
    /\ UNCHANGED <<program, running, thread, buffer, noise_floor, last_bits,
                   last_packet_time, recent_packet_data, now, blocks, tx_seq, pending>>
    /\ UNCHANGED <<level_queue, bit_buffer, char_buffer, packet_buffer, receiving, last_bit,
                   bit_count, last_transition, silent_bits, heard, same_bits>>
    /\ UNCHANGED <<codec_vars, sender_vars, life_vars, ghost_vars, afsk_vars, cycle_vars>>

\* proc_thread.join(timeout=1.0) returns, with the thread ended or not, and
\* p.terminate() releases the audio resources.
MicRelease ==
    /\ program = "viamic"
    /\ main_pc = "joining"
    /\ main_pc' = "released"
    /\ UNCHANGED <<program, running, thread, buffer, noise_floor, last_bits,
                   last_packet_time, recent_packet_data, now, blocks, tx_seq, pending>>
    /\ UNCHANGED <<audio_queue, level_queue, bit_buffer, char_buffer, packet_buffer,
                   receiving, last_bit, bit_count, last_transition, silent_bits, heard,
                   same_bits>>
    /\ UNCHANGED <<codec_vars, sender_vars, life_vars, ghost_vars, afsk_vars, cycle_vars>>

NextMicShutdown ==
    \/ MicStart
    \/ MicStream
    \/ MicProcess
    \/ MicLevel
    \/ MicStop
    \/ MicPutExit
    \/ MicRelease

\* The step of processing_thread seen from audio_queue: the get of
\* MicProcess, enabled exactly when MicProcess is.
ThreadGet ==
    /\ program = "viamic"
    /\ thread = "alive"
    /\ audio_queue # <<>>
    /\ audio_queue' = Tail(audio_queue)

\* The processing thread and main are threads of the interpreter: each goes
\* on whenever its next statement can complete.
SpecMicShutdown ==
    /\ InitMic
    /\ [][NextMicShutdown]_vars
    /\ WF_audio_queue(ThreadGet)
    /\ WF_vars(MicPutExit)
    /\ WF_vars(MicRelease)

\* C36: once the user has interrupted main, main puts the exit marker,
\* stops waiting for the thread and releases the audio resources, whatever
\* the queues hold and wherever the processing thread waits.
C36_ShutdownTerminates ==
    (main_pc = "stopping") ~> (main_pc = "released")

----------------------------------------------------------------------------
(* Lifecycle of AFSKReceiver: start() and stop() called in any order *)

MaxCalls == 5         \* calls of start() and stop() in a run
LifeMaxBlocks == 2    \* blocks captured in a run

\* processing threads of the receiver that have been started and have not returned
threads_alive == stale_threads + (IF thread = "alive" THEN 1 ELSE 0)

\* AFSKReceiver.start, called at any time. The Thread object made by an
\* earlier call is replaced in self.process_thread whether or not it has
\* returned.
StartCall ==
    /\ program = "emiliano"
    /\ calls < MaxCalls
    /\ calls' = calls + 1
    /\ IF running
       THEN UNCHANGED <<running, thread, buffer, last_bits, noise_floor, stale_threads>>
       ELSE /\ buffer' = <<>>
            /\ \E opened \in BOOLEAN :
                  IF opened
                  THEN /\ running' = TRUE
                       /\ thread' = "alive"
                       /\ stale_threads' = threads_alive
                       /\ last_bits' = <<>>
                       /\ noise_floor' = [num |-> NOISE_FLOOR, den |-> 1]
                  ELSE /\ running' = FALSE
                       /\ UNCHANGED <<thread, last_bits, noise_floor, stale_threads>>
    /\ UNCHANGED <<program, last_packet_time, recent_packet_data, now, blocks, tx_seq, pending>>
    /\ UNCHANGED <<codec_vars, sender_vars, ghost_vars, afsk_vars, mic_vars, cycle_vars>>

\* AFSKReceiver.stop, called at any time: join(timeout=1.0) returns when the
\* thread has returned or when the second is over.
StopCall ==
    /\ program = "emiliano"
    /\ calls < MaxCalls
    /\ calls' = calls + 1
    /\ IF ~running
       THEN UNCHANGED <<running, thread>>
       ELSE /\ running' = FALSE
            /\ \E returned \in BOOLEAN :
                  thread' = IF returned /\ thread = "alive" THEN "exited" ELSE thread
    /\ UNCHANGED <<program, buffer, noise_floor, last_bits, last_packet_time,
                   recent_packet_data, now, blocks, tx_seq, pending, stale_threads>>
    /\ UNCHANGED <<codec_vars, sender_vars, ghost_vars, afsk_vars, mic_vars, cycle_vars>>

\* The loop of a thread started by an earlier start() finds running cleared
\* and returns.
StaleExit ==
    /\ stale_threads > 0
    /\ ~running
    /\ stale_threads' = stale_threads - 1
    /\ UNCHANGED <<program, running, thread, buffer, noise_floor, last_bits, last_packet_time,
                   recent_packet_data, now, blocks, tx_seq, pending, calls>>
    /\ UNCHANGED <<codec_vars, sender_vars, ghost_vars, afsk_vars, mic_vars, cycle_vars>>

\* _audio_callback while the stream is open
LifeCapture ==
    /\ program = "emiliano"
    /\ blocks < LifeMaxBlocks
    /\ blocks' = blocks + 1
    /\ UNCHANGED tx_seq
    /\ \E samples \in LoopBlocks : AudioCallback(samples, buffer_maxlen)

NextLife ==
    \/ StartCall
    \/ StopCall
    \/ ThreadExit
    \/ StaleExit
    \/ LifeCapture

SpecLife == InitEmiliano /\ [][NextLife]_vars

\* the attributes of the receiver and its threads
receiver_fields == <<running, thread, buffer, noise_floor, last_bits, last_packet_time,
                     recent_packet_data, stale_threads>>

\* C37: start() on a running receiver and stop() on a stopped one change
\* nothing; start() leaves the buffer empty before any block is captured; a
\* start() whose stream does not open leaves running False and starts no
\* thread; and never more than one processing thread is alive.
C37_Lifecycle ==
    /\ [](threads_alive <= 1)
    /\ [][/\ (StartCall /\ running) => receiver_fields' = receiver_fields
          /\ (StopCall /\ ~running) => receiver_fields' = receiver_fields
          /\ (StartCall /\ ~running) => buffer' = <<>>
          /\ (StartCall /\ ~running /\ ~running') => threads_alive' = threads_alive]_vars

----------------------------------------------------------------------------
(* Cycles without enough samples or without signal *)

\* The test that ends a pass of the loop early: too few samples in the buffer,
\* or a signal power below the noise floor the pass starts with.
below_threshold ==
    \/ /\ program = "emiliano"
       /\ Len(buffer) < SamplesPerBit * 8 \/ power_below(buffer, noise_floor)
    \/ /\ program = "afsk"
       /\ Len(buffer) < AfskSamplesPerBit * 16 \/ power_below(buffer, noise_floor)

\* C38: a cycle that finds fewer samples than the minimum, or a signal power
\* below the current noise floor, makes no decode attempt, delivers no
\* packet, and leaves the buffer, the noise floor and the recent-packet set
\* as they were.
C38_QuietCycleChangesNothing ==
    [][((EmilianoCycle \/ AfskCycle) /\ below_threshold) =>
          /\ ~decode_attempted(outcome')
          /\ delivered' = delivered
          /\ cb_packet' = cb_packet
          /\ buffer' = buffer
          /\ noise_floor' = noise_floor
          /\ recent_packet_data' = recent_packet_data]_vars

----------------------------------------------------------------------------
(* A frame behind a preamble of any number of bits *)

MaxPreambleLen == 9     \* longest preamble drawn, in bits

\* The bits extracted by a cycle: the preamble, then the bits of the frame.
ReceiveBits ==
    /\ pc = "input"
    /\ \E n \in 0..MaxPreambleLen :
          /\ preamble_bits' = n
          /\ last_bits' = generate_preamble(n) \o bits_of_bytes(encode(packet_id, packet_type, data))
    /\ pc' = "received"
    /\ UNCHANGED <<crc_values, packet_id, packet_type, data, prefix, cut, raw_bytes,
                   stuffed_frame, unstuffed, packet>>
    /\ UNCHANGED <<program, running, thread, buffer, noise_floor, last_packet_time,
                   recent_packet_data, now, blocks, tx_seq, pending>>
    /\ UNCHANGED <<binary_data, framed_data, bit_index, phase, first_phase, last_phase>>
    /\ UNCHANGED <<life_vars, ghost_vars, afsk_vars, mic_vars, cycle_vars>>

\* packet_bytes = bits_to_bytes(bits); packet = Packet.decode(packet_bytes)
DecodeBits ==
    /\ pc = "received"
    /\ Len(last_bits) >= 16
    /\ raw_bytes' = bits_to_bytes(last_bits)
    /\ last_bits' = pad_bits(last_bits)
    /\ packet' = decode(bits_to_bytes(last_bits))
    /\ pc' = "searched"
    /\ UNCHANGED <<crc_values, packet_id, packet_type, data, prefix, cut, stuffed_frame,
                   unstuffed>>
    /\ UNCHANGED <<program, running, thread, buffer, noise_floor, last_packet_time,
                   recent_packet_data, now, blocks, tx_seq, pending>>
    /\ UNCHANGED <<sender_vars, life_vars, ghost_vars, afsk_vars, mic_vars, cycle_vars>>

NextAlign ==
    \/ ReceiveBits
    \/ DecodeBits

SpecAlign == InitRoundTrip /\ [][NextAlign]_vars

\* C39: a valid frame is found and decoded to its packet whatever the number
\* of preamble bits ahead of its start flag.
C39_AnyPreambleLength ==
    pc = "searched" => packet = Packet(data, packet_id, packet_type)

----------------------------------------------------------------------------
(* Packets with the same payload under different headers *)

DedupMaxBlocks == 3    \* audio blocks captured in a run

\* Frames that share the payload 07 under three headers, and one frame with
\* another payload.
DedupBlocks ==
    { tx_samples(encode(1, 1, <<7>>)),
      tx_samples(encode(2, 1, <<7>>)),
      tx_samples(encode(1, 2, <<7>>)),
      tx_samples(encode(2, 1, <<8>>)) }

DedupCapture ==
    /\ program = "emiliano"
    /\ blocks < DedupMaxBlocks
    /\ blocks' = blocks + 1
    /\ UNCHANGED tx_seq
    /\ \E samples \in DedupBlocks : AudioCallback(samples, buffer_maxlen)

NextDedup ==
    \/ EmilianoStart
    \/ DedupCapture
    \/ EmilianoCycle

SpecDedup == InitEmiliano /\ [][NextDedup]_vars

\* the packet a pass of the loop over these samples hands to the duplicate
\* check, None when it does not come that far
packet_found(samples, floor, last) ==
    IF looks_for_packets(samples, floor, last)
    THEN decode(bits_to_bytes(slice_bits(samples, SamplesPerBit)))
    ELSE None

\* C40: a cycle that decodes a valid packet invokes the callback with it if
\* and only if the hash of its payload is not in the recent-packet set;
\* packet_id and packet_type play no part.
C40_DedupOnPayload ==
    [][LET p == packet_found(buffer, noise_floor, last_bits)
       IN  (EmilianoCycle /\ p.kind = "Packet") =>
              IF packet_hash(p.data) \notin recent_packet_data
              THEN /\ outcome' = "delivered"
                   /\ cb_packet' = p
                   /\ run_calls' > (IF packet_hash(p.data) = run_hash THEN run_calls ELSE 0)
              ELSE /\ outcome' = "duplicate"
                   /\ cb_packet' = cb_packet
                   /\ delivered' = delivered
                   /\ run_calls' = (IF packet_hash(p.data) = run_hash THEN run_calls ELSE 0)]_vars

\* The latest cycle decoded a packet with the payload of the packet delivered
\* before it and another packet_id, and did not deliver it.
C40_Witness ==
    /\ outcome = "duplicate"
    /\ LET p == decode(bits_to_bytes(last_bits))
       IN  /\ p.kind = "Packet"
           /\ cb_packet.kind = "Packet"
           /\ p.data = cb_packet.data
           /\ p.packet_id # cb_packet.packet_id
====
